---- MODULE Spec2Model ----
(***************************************************************************)
(* A model of nado, a local differential tester: the orchestrator of       *)
(* src/src/engine.rs (run, run_case, the aggregation and the verdicts) and *)
(* the runner of src/src/runner.rs (run_command).                          *)
(*                                                                         *)
(* Indices are 0-based as in the source: cases are 0..cases-1, candidates  *)
(* are 0..k-1.  A string of the program is a sequence of one-character     *)
(* strings.                                                                *)
(***************************************************************************)
EXTENDS Integers, Sequences, FiniteSets, TLC

\* ------------------------------------------------------------------ bounds

\* The largest engine.cases drawn (the corpus has exactly that many inputs).
MaxCases == 2
\* The largest number of [[candidate]] tables drawn.
MaxCandidates == 2
\* The largest engine.workers drawn.
MaxWorkers == 2
\* The largest number of (case, candidate) pairs of a configuration drawn.
MaxPairs == 4
\* How many times the program is invoked again on the same configuration.
MaxReruns == 1
\* The capacity of a pipe's kernel buffer, in bytes.
PipeCapacity == 2
\* The largest number of bytes a child writes (stdout and stderr together).
MaxOutput == 3

\* ------------------------------------------------------------- characters

LF == "\n"
CR == "\r"
SP == " "
TAB == "\t"

\* char::is_whitespace, restricted to the characters the model draws.
IsWhitespace(c) == c \in {SP, TAB, CR, LF}

\* ------------------------------------------------------------- normalizer

\* str::replace("\r\n", "\n"): non-overlapping matches, left to right.
RECURSIVE ReplaceCrLf(_)
ReplaceCrLf(s) ==
    IF Len(s) = 0 THEN s
    ELSE IF Len(s) >= 2 /\ s[1] = CR /\ s[2] = LF
         THEN <<LF>> \o ReplaceCrLf(SubSeq(s, 3, Len(s)))
         ELSE <<s[1]>> \o ReplaceCrLf(Tail(s))

\* str::split('\n'): the pieces between the separators (n separators give
\* n + 1 pieces, empty ones included).
RECURSIVE SplitLines(_, _)
SplitLines(s, cur) ==
    IF Len(s) = 0 THEN <<cur>>
    ELSE IF s[1] = LF THEN <<cur>> \o SplitLines(Tail(s), <<>>)
         ELSE SplitLines(Tail(s), Append(cur, s[1]))

\* str::trim_end: drop the trailing whitespace characters.
RECURSIVE TrimEnd(_)
TrimEnd(s) ==
    IF Len(s) > 0 /\ IsWhitespace(s[Len(s)])
    THEN TrimEnd(SubSeq(s, 1, Len(s) - 1))
    ELSE s

\* [&str]::join("\n")
RECURSIVE JoinLines(_)
JoinLines(ls) ==
    IF Len(ls) = 0 THEN <<>>
    ELSE IF Len(ls) = 1 THEN ls[1]
         ELSE ls[1] \o <<LF>> \o JoinLines(Tail(ls))

\* str::trim_end_matches('\n')
RECURSIVE TrimEndNewlines(_)
TrimEndNewlines(s) ==
    IF Len(s) > 0 /\ s[Len(s)] = LF
    THEN TrimEndNewlines(SubSeq(s, 1, Len(s) - 1))
    ELSE s

TrimLines(s) ==
    LET ls == SplitLines(s, <<>>)
    IN  JoinLines([i \in 1..Len(ls) |-> TrimEnd(ls[i])])

normalize_output(output, normalize) ==
    LET a == ReplaceCrLf(output)
        b == IF normalize.trim_trailing_ws THEN TrimLines(a) ELSE a
    IN  IF normalize.ignore_final_newline THEN TrimEndNewlines(b) ELSE b

\* ------------------------------------------------------- program results

\* Result<RunOutput>: ok = FALSE is Err(_); otherwise the RunOutput fields
\* (status.success(), stdout, timed_out).
RunErr == [ok |-> FALSE, timed_out |-> FALSE, success |-> FALSE, stdout |-> <<>>]
RunOutput(timed_out, success, stdout) ==
    [ok |-> TRUE, timed_out |-> timed_out, success |-> success, stdout |-> stdout]

\* What the programs of the drawn configurations print.
OutOne == <<"1", LF>>
OutBare == <<"1", SP>>
OutTwo == <<"2", LF>>

\* What a program does on one case: a runner error, a timeout (the child
\* was killed, or exited by itself just before the kill), a non-success
\* exit, or a normal exit with some output.
OriginOutcomes ==
    { RunErr,
      RunOutput(TRUE, FALSE, <<>>),
      RunOutput(TRUE, TRUE, OutOne),
      RunOutput(FALSE, FALSE, <<>>),
      RunOutput(FALSE, TRUE, OutOne) }
CandidateOutcomes ==
    { RunErr,
      RunOutput(TRUE, FALSE, <<>>),
      RunOutput(TRUE, TRUE, OutOne),
      RunOutput(FALSE, FALSE, OutOne),
      RunOutput(FALSE, TRUE, OutOne),
      RunOutput(FALSE, TRUE, OutBare),
      RunOutput(FALSE, TRUE, OutTwo) }
\* The entry of a (case, candidate) pair that no run can read, because the
\* origin does not succeed on the case.
Unobserved == RunOutput(FALSE, TRUE, OutOne)

\* config::Normalize
Normalizes == [trim_trailing_ws : BOOLEAN, ignore_final_newline : BOOLEAN]

\* ------------------------------------------------------------------ state

VARIABLES
    config,              \* Config: cases, candidates (their number), workers,
                         \* stop_on_first_fail, normalize
    programs,            \* what origin and candidates do on each case
    failed_candidates,   \* the per-candidate AtomicBool flags
    pc,                  \* per case: "pending", "loop", "run", "done"
    candidate_idx,       \* per case: run_case's loop index
    task_failures,       \* per case: the vector run_case_or_failure returned
    runs,                \* per case: the programs run so far, in order
                         \* (None is the origin)
    phase,               \* "pool" (inside pool.install), "reported" (run returned)
    collected,           \* the vector collect() returned, before the sort
    failures,            \* the vector after sort_by_key
    candidate_failures,  \* the per-candidate buckets
    infra_failures,      \* the origin/engine bucket
    summary,             \* what print_candidate_summary printed per candidate
    exit_code,           \* run's Ok(code); NoCode before it returns
    earlier,             \* the case_index sets reported by earlier invocations
    \* One call of runner::run_command and the processes it deals with:
    env,                 \* what the program and the OS do in this call
    rpc,                 \* where run_command is
    child,               \* "none", "running", "exited" (not reaped), "reaped"
    child_status,        \* "none", "success", "failure", "killed"
    descendant_alive,    \* a process the child forked holds the child's pipes
    stdin_left,          \* the input bytes write_all has not written yet
    stdin_open,          \* the parent holds the write end of the child's stdin
    stdin_pipe,          \* the bytes in the pipes' kernel buffers
    stdout_pipe,
    stderr_pipe,
    child_io,            \* the child: eof seen on stdin, bytes still to write
    drain,               \* the two drain threads: state and buffer
    timed_out,           \* run_command's local
    status,              \* the ExitStatus run_command obtained
    r_result,            \* << >> until run_command returns, then << its result >>
    \* Calls of the pure functions: the arguments, and what the calls returned.
    gen_call,            \* generator::generate_inputs(specs, cases, seed, pbt)
    gen_rets,            \* the results of the calls made with these arguments
    gen_rng,             \* the state of the TestRng the last call left behind
    pb_call,             \* generator::parse_bounds(spec), and the build
    pb_rets,             \* its results
    norm_call,           \* engine::normalize_output(output, normalize)
    norm_rets,           \* its result, and the result of normalizing that
    prog_call,           \* runner::run_program(program, .., config_dir, .., limits)
    prog_rets,           \* what it did up to the spawn
    part_call,           \* generator::partition_points(spec)
    part_rets            \* its result

setupVars == << config, programs >>
reportVars ==
    << collected, failures, candidate_failures, infra_failures, summary, exit_code >>
engineVars ==
    << setupVars, failed_candidates, pc, candidate_idx, task_failures, runs,
       phase, reportVars, earlier >>

runnerVars ==
    << env, rpc, child, child_status, descendant_alive, stdin_left, stdin_open,
       stdin_pipe, stdout_pipe, stderr_pipe, child_io, drain, timed_out, status,
       r_result >>

pureVars ==
    << gen_call, gen_rets, gen_rng, pb_call, pb_rets, norm_call, norm_rets,
       prog_call, prog_rets, part_call, part_rets >>

vars == << engineVars, runnerVars, pureVars >>

\* Option::None of Failure.candidate_index (the origin/engine sentinel).
None == -1
\* usize::MAX as the sort key of the sentinel, capped to TLC's integers:
\* every candidate index is below it.
USIZE_MAX == 2147483647
\* run has not returned yet.
NoCode == -1

Cases == 0 .. config.cases - 1
Candidates == 0 .. config.candidates - 1

\* candidate_names: the models' candidates are unnamed, so format!("candidate-{}", idx + 1).
candidate_name(idx) ==
    << "candidate-1", "candidate-2", "candidate-3", "candidate-4", "candidate-5" >>[idx + 1]

\* ------------------------------------------------------------- run_case

Failure(idx, cidx, name, reason) ==
    [case_index |-> idx, candidate_index |-> cidx, candidate_name |-> name,
     reason |-> reason]

engine_failure(idx) == Failure(idx, None, "engine", "runner error")

\* Result<Vec<Failure>>
CaseErr == [is_err |-> TRUE, failures |-> << >>]
CaseOk(fs) == [is_err |-> FALSE, failures |-> fs]

\* A variant of OriginPart that tests the exit status before the timeout.
OriginPart_status_first(idx, origin) ==
    IF ~origin.ok THEN CaseErr
    ELSE IF ~origin.success
         THEN CaseOk(<< Failure(idx, None, "origin", "origin exited") >>)
    ELSE IF origin.timed_out
         THEN CaseOk(<< Failure(idx, None, "origin", "origin timed out") >>)
    ELSE CaseOk(<< >>)

\* run_case up to the candidate loop: the `?` on the origin's run_program and
\* the two early returns.  CaseOk(<<>>) stands for "go on to the loop".
OriginPart(idx, origin) ==
    IF ~origin.ok THEN CaseErr
    ELSE IF origin.timed_out
         THEN CaseOk(<< Failure(idx, None, "origin", "origin timed out") >>)
    ELSE IF ~origin.success
         THEN CaseOk(<< Failure(idx, None, "origin", "origin exited") >>)
    ELSE CaseOk(<< >>)

\* A variant of run_case_or_failure that drops the error (unwrap_or_default).
run_case_or_failure_default(idx, result) == result.failures

\* .unwrap_or_else(|e| vec![engine_failure(idx, input, &e)])
run_case_or_failure(idx, result) ==
    IF result.is_err THEN << engine_failure(idx) >> ELSE result.failures

\* A variant of CandidateReason that compares the candidate's raw stdout.
CandidateReason_raw(got, expected, normalize) ==
    IF ~got.ok THEN "candidate runner error"
    ELSE IF got.timed_out THEN "candidate timed out"
    ELSE IF ~got.success THEN "candidate exited"
    ELSE IF expected # got.stdout THEN "output mismatch"
    ELSE "pass"

\* A variant of CandidateReason that tests the exit status before the timeout.
CandidateReason_status_first(got, expected, normalize) ==
    IF ~got.ok THEN "candidate runner error"
    ELSE IF ~got.success THEN "candidate exited"
    ELSE IF got.timed_out THEN "candidate timed out"
    ELSE IF expected # normalize_output(got.stdout, normalize) THEN "output mismatch"
    ELSE "pass"

\* The classification of one candidate run in run_case's loop body: "pass"
\* or the reason of the failure pushed.
CandidateReason(got, expected, normalize) ==
    IF ~got.ok THEN "candidate runner error"
    ELSE IF got.timed_out THEN "candidate timed out"
    ELSE IF ~got.success THEN "candidate exited"
    ELSE IF expected # normalize_output(got.stdout, normalize) THEN "output mismatch"
    ELSE "pass"

\* A variant of should_skip_candidate that never skips.
should_skip_candidate_never(flags, stop, j) == FALSE

\* A variant of should_skip_candidate that skips once any candidate has failed.
should_skip_candidate_any(flags, stop, j) ==
    stop /\ \E c \in DOMAIN flags : flags[c]

\* failed_candidates[candidate_idx].load(Relaxed); false without the flags.
should_skip_candidate(flags, stop, j) == stop /\ flags[j]

\* A variant of mark_candidate_failed with one flag shared by all candidates.
mark_candidate_failed_shared(flags, stop, j) ==
    IF stop THEN [c \in DOMAIN flags |-> TRUE] ELSE flags


mark_candidate_failed(flags, stop, j) ==
    IF stop THEN [flags EXCEPT ![j] = TRUE] ELSE flags

\* The loop `for (candidate_idx, candidate) in ...`: after candidate j the
\* task is at the loop head of j + 1, or returns Ok(failures).
AfterCandidate(i, j) ==
    /\ candidate_idx' = [candidate_idx EXCEPT ![i] = j + 1]
    /\ pc' = [pc EXCEPT ![i] = IF j + 1 = config.candidates THEN "done" ELSE "loop"]

InFlight == { i \in Cases : pc[i] \in {"loop", "run"} }
Pending == { i \in Cases : pc[i] = "pending" }

\* A variant of CanStart for a pool without a limit on its threads.
CanStart_unbounded(i) ==
    /\ phase = "pool"
    /\ pc[i] = "pending"
    /\ config.workers = 1 => \A h \in Pending : i <= h

\* A variant of CanStart that starts no case once every candidate has failed.
CanStart_unless_all_failed(i) ==
    /\ phase = "pool"
    /\ pc[i] = "pending"
    /\ Cardinality(InFlight) < config.workers
    /\ config.workers = 1 => \A h \in Pending : i <= h
    /\ ~(config.stop_on_first_fail /\ \A j \in Candidates : failed_candidates[j])

\* par_iter on a pool of `workers` threads: at most `workers` case tasks run
\* at once.  One thread runs the cases in index order; with more threads work
\* stealing can start any pending case.
CanStart(i) ==
    /\ phase = "pool"
    /\ pc[i] = "pending"
    /\ Cardinality(InFlight) < config.workers
    /\ config.workers = 1 => \A h \in Pending : i <= h

\* The task of case i is at the head of the candidate loop, in its body.
AtLoopHead(i) == phase = "pool" /\ pc[i] = "loop"
AtLoopBody(i) == phase = "pool" /\ pc[i] = "run"
\* pool.install returns: every case task has returned.
AllReturned == phase = "pool" /\ \A i \in Cases : pc[i] = "done"

\* A worker takes case i and runs the origin (run_case up to the loop).
RunOrigin(i) ==
    /\ CanStart(i)
    /\ runs' = [runs EXCEPT ![i] = Append(@, None)]
    /\ LET result == OriginPart(i, programs.origin[i])
           returned == run_case_or_failure(i, result)
       IN  IF result.is_err \/ result.failures # << >>
           THEN /\ task_failures' = [task_failures EXCEPT ![i] = returned]
                /\ pc' = [pc EXCEPT ![i] = "done"]
           ELSE /\ pc' = [pc EXCEPT ![i] = "loop"]
                /\ UNCHANGED task_failures
    /\ UNCHANGED << setupVars, failed_candidates, candidate_idx, phase,
                    reportVars, earlier, runnerVars, pureVars >>

\* The loop head: the load of the candidate's flag.
LoopHead(i) ==
    /\ AtLoopHead(i)
    /\ LET j == candidate_idx[i]
       IN  IF should_skip_candidate(failed_candidates, config.stop_on_first_fail, j)
           THEN AfterCandidate(i, j)
           ELSE /\ pc' = [pc EXCEPT ![i] = "run"]
                /\ UNCHANGED candidate_idx
    /\ UNCHANGED << setupVars, failed_candidates, task_failures, runs, phase,
                    reportVars, earlier, runnerVars, pureVars >>

\* The loop body: run the candidate, classify, push and mark.
RunCandidate(i) ==
    /\ AtLoopBody(i)
    /\ LET j == candidate_idx[i]
           got == programs.candidate[i][j]
           expected == normalize_output(programs.origin[i].stdout, config.normalize)
           reason == CandidateReason(got, expected, config.normalize)
       IN  /\ runs' = [runs EXCEPT ![i] = Append(@, j)]
           /\ IF reason = "pass"
              THEN UNCHANGED << task_failures, failed_candidates >>
              ELSE /\ task_failures' =
                        [task_failures EXCEPT
                            ![i] = Append(@, Failure(i, j, candidate_name(j), reason))]
                   /\ failed_candidates' =
                        mark_candidate_failed(failed_candidates,
                                              config.stop_on_first_fail, j)
           /\ AfterCandidate(i, j)
    /\ UNCHANGED << setupVars, phase, reportVars, earlier, runnerVars,
                    pureVars >>

\* ------------------------------------------------- collect, sort, aggregate

RECURSIVE Flatten(_)
Flatten(ss) == IF Len(ss) = 0 THEN << >> ELSE ss[1] \o Flatten(Tail(ss))

\* The orders in which the tasks' vectors can reach the collected vector.
CaseOrders(n) ==
    { o \in [1 .. n -> 0 .. n - 1] : \A a, b \in 1 .. n : a # b => o[a] # o[b] }

\* A variant of SortKey that sorts by the candidate index only.
SortKey_candidate_only(f) ==
    << 0, IF f.candidate_index = None THEN USIZE_MAX ELSE f.candidate_index >>

\* The key of sort_by_key: (case_index, candidate_index.unwrap_or(usize::MAX)).
SortKey(f) ==
    << f.case_index,
       IF f.candidate_index = None THEN USIZE_MAX ELSE f.candidate_index >>

KeyLeq(a, b) == a[1] < b[1] \/ (a[1] = b[1] /\ a[2] <= b[2])

\* Insert f behind every element whose key is not greater (a stable sort).
RECURSIVE InsertByKey(_, _)
InsertByKey(s, f) ==
    IF Len(s) = 0 THEN << f >>
    ELSE IF KeyLeq(SortKey(s[1]), SortKey(f))
         THEN << s[1] >> \o InsertByKey(Tail(s), f)
         ELSE << f >> \o s

RECURSIVE SortFrom(_, _)
SortFrom(sorted, rest) ==
    IF Len(rest) = 0 THEN sorted
    ELSE SortFrom(InsertByKey(sorted, rest[1]), Tail(rest))

\* A variant of SortFailures that leaves the collected order.
SortFailures_none(fs) == fs

\* failures.sort_by_key(...)
SortFailures(fs) == SortFrom(<< >>, fs)

\* A variant of Bucket that keeps every failure.
Bucket_keep_all(acc, failure, stop) ==
    IF failure.candidate_index # None
    THEN [acc EXCEPT !.candidate[failure.candidate_index] = Append(@, failure)]
    ELSE [acc EXCEPT !.infra = Append(@, failure)]

\* One iteration of `for failure in failures`.
Bucket(acc, failure, stop) ==
    IF failure.candidate_index # None
    THEN IF stop /\ Len(acc.candidate[failure.candidate_index]) > 0
         THEN acc
         ELSE [acc EXCEPT !.candidate[failure.candidate_index] = Append(@, failure)]
    ELSE [acc EXCEPT !.infra = Append(@, failure)]

RECURSIVE AggregateFrom(_, _, _)
AggregateFrom(acc, fs, stop) ==
    IF Len(fs) = 0 THEN acc
    ELSE AggregateFrom(Bucket(acc, fs[1], stop), Tail(fs), stop)

\* infra_failures and candidate_failures after the loop.
Aggregate(fs, k, stop) ==
    AggregateFrom([infra |-> << >>, candidate |-> [j \in 0 .. k - 1 |-> << >>]],
                  fs, stop)

\* failed_count: the number of candidates with a non-empty bucket.
FailedCount(buckets) ==
    Cardinality({ j \in DOMAIN buckets : Len(buckets[j]) > 0 })

\* A variant of ExitCode that looks at the candidates' buckets only.
ExitCode_candidates_only(failed_count, has_infra_failure) ==
    IF failed_count = 0 THEN 0 ELSE 1

\* run's return value.
ExitCode(failed_count, has_infra_failure) ==
    IF failed_count = 0 /\ ~has_infra_failure THEN 0 ELSE 1

\* A variant of SummaryLine that tests the infrastructure failure first.
SummaryLine_infra_first(failure_count, has_infra_failure) ==
    IF has_infra_failure THEN [verdict |-> "UNKNOWN", n |-> 0]
    ELSE IF failure_count > 0 THEN [verdict |-> "FAIL", n |-> failure_count]
    ELSE [verdict |-> "PASS", n |-> 0]

\* One line of print_candidate_summary.
SummaryLine(failure_count, has_infra_failure) ==
    IF failure_count > 0 THEN [verdict |-> "FAIL", n |-> failure_count]
    ELSE IF has_infra_failure THEN [verdict |-> "UNKNOWN", n |-> 0]
    ELSE [verdict |-> "PASS", n |-> 0]

\* Every case task has returned: collect, sort, aggregate, print, return.
Report ==
    /\ AllReturned
    /\ \E o \in CaseOrders(config.cases) :
         collected' = Flatten([n \in 1 .. config.cases |-> task_failures[o[n]]])
    /\ failures' = SortFailures(collected')
    /\ LET agg == Aggregate(failures', config.candidates, config.stop_on_first_fail)
           failed_count == FailedCount(agg.candidate)
           has_infra_failure == Len(agg.infra) > 0
           code == ExitCode(failed_count, has_infra_failure)
       IN  /\ candidate_failures' = agg.candidate
           /\ infra_failures' = agg.infra
           /\ exit_code' = code
           /\ summary' =
                [j \in Candidates |->
                    SummaryLine(Len(agg.candidate[j]),
                                IF code = 0 THEN FALSE ELSE has_infra_failure)]
    /\ phase' = "reported"
    /\ UNCHANGED << setupVars, failed_candidates, pc, candidate_idx,
                    task_failures, runs, earlier, runnerVars, pureVars >>

\* ------------------------------------------------------------------- Init

\* The configurations drawn: at least one candidate (run bails otherwise),
\* at least one worker.
Configs ==
    { c \in [cases : 0 .. MaxCases, candidates : 1 .. MaxCandidates,
             workers : 1 .. MaxWorkers, stop_on_first_fail : BOOLEAN,
             normalize : Normalizes] :
        c.cases * c.candidates <= MaxPairs }

\* Deterministic programs: what each does on each case is fixed.
ProgramTables(c) ==
    { p \in [origin : [0 .. c.cases - 1 -> OriginOutcomes],
             candidate : [0 .. c.cases - 1 ->
                            [0 .. c.candidates - 1 -> CandidateOutcomes]]] :
        \A i \in 0 .. c.cases - 1 :
            OriginPart(i, p.origin[i]) # CaseOk(<< >>) =>
                \A j \in 0 .. c.candidates - 1 : p.candidate[i][j] = Unobserved }

\* The state in which run enters pool.install.
PoolStart ==
    /\ failed_candidates = [j \in Candidates |-> FALSE]
    /\ pc = [i \in Cases |-> "pending"]
    /\ candidate_idx = [i \in Cases |-> 0]
    /\ task_failures = [i \in Cases |-> << >>]
    /\ runs = [i \in Cases |-> << >>]
    /\ phase = "pool"
    /\ collected = << >>
    /\ failures = << >>
    /\ candidate_failures = [j \in Candidates |-> << >>]
    /\ infra_failures = << >>
    /\ summary = [j \in Candidates |-> [verdict |-> "NONE", n |-> 0]]
    /\ exit_code = NoCode

\* No call of run_command is looked at.
RunnerIdle ==
    /\ env = [input |-> << >>, reads_stdin |-> FALSE, stdout |-> << >>,
              stderr |-> << >>, exits |-> TRUE, exit_success |-> TRUE,
              descendant |-> "none", fault |-> "none", order |-> "any"]
    /\ rpc = "idle"
    /\ child = "none"
    /\ child_status = "none"
    /\ descendant_alive = FALSE
    /\ stdin_left = << >>
    /\ stdin_open = FALSE
    /\ stdin_pipe = << >>
    /\ stdout_pipe = << >>
    /\ stderr_pipe = << >>
    /\ child_io = [eof |-> FALSE, out |-> << >>, err |-> << >>]
    /\ drain = [stdout |-> [state |-> "none", buf |-> << >>],
                stderr |-> [state |-> "none", buf |-> << >>]]
    /\ timed_out = FALSE
    /\ status = "none"
    /\ r_result = << >>

\* No call of generate_inputs, of parse_bounds, of normalize_output is looked
\* at.
GenIdle ==
    /\ gen_call = [specs |-> << >>, cases |-> 0, seed |-> 0,
                   pbt |-> [enabled |-> FALSE, edge_case_ratio |-> 0,
                            partition_ratio |-> 0, max_cartesian_cases |-> 1]]
    /\ gen_rets = << >>
    /\ gen_rng = 0

BoundsIdle ==
    /\ pb_call = [min |-> << >>, max |-> << >>, range |-> << >>,
                  tokens |-> << >>, extra |-> << >>, overflow_checks |-> FALSE]
    /\ pb_rets = << >>

NormIdle ==
    /\ norm_call = [output |-> << >>,
                    normalize |-> [trim_trailing_ws |-> TRUE,
                                   ignore_final_newline |-> TRUE]]
    /\ norm_rets = << >>

\* No call of run_program is looked at.
ProgramIdle ==
    /\ prog_call = [program |-> [cmd |-> << >>, image |-> << >>, mounts |-> << >>],
                    limits |-> [memory_mb |-> << >>, nproc |-> << >>],
                    fs |-> "missing"]
    /\ prog_rets = << >>

\* No call of partition_points is looked at.
PartitionIdle ==
    /\ part_call = [min |-> 0, max |-> 0]
    /\ part_rets = << >>

PureIdle == GenIdle /\ BoundsIdle /\ NormIdle /\ ProgramIdle /\ PartitionIdle

Init ==
    /\ config \in Configs
    /\ programs \in ProgramTables(config)
    /\ PoolStart
    /\ earlier = << >>
    /\ RunnerIdle
    /\ PureIdle

Next ==
    \/ \E i \in Cases : RunOrigin(i)
    \/ \E i \in Cases : LoopHead(i)
    \/ \E i \in Cases : RunCandidate(i)
    \/ Report

Spec == Init /\ [][Next]_vars

\* The pool's threads keep taking the work there is, and every program run
\* returns: a step that is possible is taken in the end.
\* The runs looked at: Normalize::default(); an origin that cannot be run,
\* times out or succeeds; candidates that cannot be run, agree or differ.
FairOrigins == { RunErr, RunOutput(TRUE, FALSE, << >>), RunOutput(FALSE, TRUE, OutOne) }
FairCandidates ==
    { RunErr, RunOutput(FALSE, TRUE, OutOne), RunOutput(FALSE, TRUE, OutTwo) }

FairInit ==
    /\ config \in { c \in Configs :
                        c.normalize = [trim_trailing_ws |-> TRUE,
                                       ignore_final_newline |-> TRUE] }
    /\ programs \in
          { p \in ProgramTables(config) :
              \A i \in Cases :
                  /\ p.origin[i] \in FairOrigins
                  /\ \A c \in Candidates : p.candidate[i][c] \in FairCandidates }
    /\ PoolStart
    /\ earlier = << >>
    /\ RunnerIdle
    /\ PureIdle

FairSpec == FairInit /\ [][Next]_vars /\ WF_vars(Next)

\* A run with more cases than threads: one candidate, stop_on_first_fail,
\* Normalize::default(), the outcomes of FairInit.
MaxPoolCases == 3

PoolInit ==
    /\ config \in
          { c \in [cases : 0 .. MaxPoolCases, candidates : {1},
                   workers : 1 .. MaxWorkers, stop_on_first_fail : {TRUE},
                   normalize : Normalizes] :
              c.normalize = [trim_trailing_ws |-> TRUE,
                             ignore_final_newline |-> TRUE] }
    /\ programs \in
          { p \in ProgramTables(config) :
              \A i \in Cases :
                  /\ p.origin[i] \in FairOrigins
                  /\ \A c \in Candidates : p.candidate[i][c] \in FairCandidates }
    /\ PoolStart
    /\ earlier = << >>
    /\ RunnerIdle
    /\ PureIdle

PoolSpec == PoolInit /\ [][Next]_vars

\* ------------------------------------------------------------ a second run

RECURSIVE CaseIndexes(_)
CaseIndexes(fs) ==
    IF Len(fs) = 0 THEN {} ELSE {fs[1].case_index} \cup CaseIndexes(Tail(fs))

\* The case_index values of the failures the report retains.
ReportedCases ==
    CaseIndexes(infra_failures)
        \cup UNION { CaseIndexes(candidate_failures[j]) : j \in Candidates }

\* The program is invoked again with the same configuration file and the
\* same (deterministic) programs.
Rerun ==
    /\ phase = "reported"
    /\ Len(earlier) < MaxReruns
    /\ earlier' = Append(earlier, ReportedCases)
    /\ UNCHANGED << setupVars, runnerVars, pureVars >>
    /\ failed_candidates' = [j \in Candidates |-> FALSE]
    /\ pc' = [i \in Cases |-> "pending"]
    /\ candidate_idx' = [i \in Cases |-> 0]
    /\ task_failures' = [i \in Cases |-> << >>]
    /\ runs' = [i \in Cases |-> << >>]
    /\ phase' = "pool"
    /\ collected' = << >>
    /\ failures' = << >>
    /\ candidate_failures' = [j \in Candidates |-> << >>]
    /\ infra_failures' = << >>
    /\ summary' = [j \in Candidates |-> [verdict |-> "NONE", n |-> 0]]
    /\ exit_code' = NoCode

NextTwice == Next \/ Rerun

TwoRuns == Init /\ [][NextTwice]_vars

\* ---------------------------------------------------------------- the runner
\* runner::run_command, step by step, with the child process, the three pipes
\* between the two and the two drain threads.  A byte is a one-character
\* string.

\* A byte that is not valid UTF-8, and the character from_utf8_lossy puts in
\* its place.
INVALID == "<ff>"
REPLACEMENT == "<fffd>"

Utf8Lossy(bytes) ==
    [n \in 1..Len(bytes) |-> IF bytes[n] = INVALID THEN REPLACEMENT ELSE bytes[n]]

\* What a child writes to stdout and to stderr: the first n bytes of a text.
StdoutText(n) ==
    [m \in 1..n |-> IF m = 2 THEN INVALID ELSE IF m % 2 = 1 THEN "1" ELSE LF]

StderrText(n) == [m \in 1..n |-> IF m % 2 = 1 THEN "e" ELSE LF]

\* The inputs: none, one that fits the pipe, one that does not.
Inputs == { << >>, <<"7", LF>> } \cup { [m \in 1..(PipeCapacity + 1) |-> "7"] }

\* The programs and what the OS does to this call.  `descendant` is a process
\* the child forks at once, which inherits the child's three descriptors and
\* never uses them; `fault` is the system call that fails; `order` is the
\* order of the child's reads and writes: it reads its whole input before it
\* writes, it writes everything before it reads, or it does both in any order.
RunnerEnvs ==
    { e \in [input : Inputs,
             reads_stdin : BOOLEAN,
             stdout : { StdoutText(n) : n \in 0..MaxOutput },
             stderr : { StderrText(n) : n \in 0..MaxOutput },
             exits : BOOLEAN,
             exit_success : BOOLEAN,
             descendant : {"none", "exits", "forever"},
             fault : {"none", "spawn", "wait_timeout", "wait"},
             order : {"read_first", "write_first", "any"}] :
        /\ Len(e.stdout) + Len(e.stderr) <= MaxOutput
        /\ ~e.exits => ~e.exit_success
        /\ ~e.reads_stdin => e.order = "any" }

\* Some process holds the write ends of stdout and stderr (and the read end
\* of stdin).
PipesHeld == child = "running" \/ descendant_alive

\* run_command returns r.
Return(r) ==
    /\ rpc' = "returned"
    /\ r_result' = << r >>

\* command.spawn()
R_Spawn ==
    /\ rpc = "spawn"
    /\ IF env.fault = "spawn"
       THEN /\ Return(RunErr)
            /\ UNCHANGED << child, descendant_alive, child_io, stdin_open,
                            stdin_left >>
       ELSE /\ child' = "running"
            /\ descendant_alive' = (env.descendant # "none")
            /\ child_io' = [eof |-> FALSE, out |-> env.stdout, err |-> env.stderr]
            /\ stdin_open' = TRUE
            /\ stdin_left' = env.input
            /\ rpc' = "write_stdin"
            /\ UNCHANGED r_result
    /\ UNCHANGED << engineVars, pureVars,
                    env, child_status, stdin_pipe, stdout_pipe,
                    stderr_pipe, drain, timed_out, status >>

\* stdin.write_all(input): one byte goes into the pipe, or the write fails with
\* EPIPE when nobody holds the read end; it blocks while the pipe is full.
CanWriteStdin ==
    /\ rpc = "write_stdin"
    /\ stdin_left # << >>
    /\ ~PipesHeld \/ Len(stdin_pipe) < PipeCapacity

R_WriteStdin ==
    /\ CanWriteStdin
    /\ IF ~PipesHeld
       THEN /\ Return(RunErr)
            /\ stdin_open' = FALSE
            /\ UNCHANGED << stdin_pipe, stdin_left >>
       ELSE /\ stdin_pipe' = Append(stdin_pipe, Head(stdin_left))
            /\ stdin_left' = Tail(stdin_left)
            /\ UNCHANGED << rpc, r_result, stdin_open >>
    /\ UNCHANGED << engineVars, pureVars,
                    env, child, child_status, descendant_alive,
                    stdout_pipe, stderr_pipe, child_io, drain, timed_out,
                    status >>

\* A variant of CanStartDrains that does not wait for write_all.
CanStartDrains_early == rpc = "write_stdin"

\* The whole input is written: stdin is dropped (closed), stdout and stderr
\* are taken and the two drain threads are started.
CanStartDrains == rpc = "write_stdin" /\ stdin_left = << >>

R_StartDrains ==
    /\ CanStartDrains
    /\ stdin_open' = FALSE
    /\ drain' = [stdout |-> [state |-> "reading", buf |-> << >>],
                 stderr |-> [state |-> "reading", buf |-> << >>]]
    /\ rpc' = "wait_timeout"
    /\ UNCHANGED << engineVars, pureVars,
                    env, child, child_status, descendant_alive,
                    stdin_left, stdin_pipe, stdout_pipe, stderr_pipe, child_io,
                    timed_out, status, r_result >>

\* child.wait_timeout(duration): the child has exited and is reaped, or the
\* duration passes while it runs, or the call fails.
R_WaitTimeout ==
    /\ rpc = "wait_timeout"
    /\ \/ /\ env.fault = "wait_timeout"
          /\ Return(RunErr)
          /\ UNCHANGED << child, status, timed_out >>
       \/ /\ env.fault # "wait_timeout"
          /\ child = "exited"
          /\ child' = "reaped"
          /\ status' = child_status
          /\ rpc' = "join_stdout"
          /\ UNCHANGED << timed_out, r_result >>
       \/ /\ env.fault # "wait_timeout"
          /\ child = "running"
          /\ timed_out' = TRUE
          /\ rpc' = "kill"
          /\ UNCHANGED << child, status, r_result >>
    /\ UNCHANGED << engineVars, pureVars,
                    env, child_status, descendant_alive, stdin_left,
                    stdin_open, stdin_pipe, stdout_pipe, stderr_pipe, child_io,
                    drain >>

\* let _ = child.kill(): the child, and only the child, is killed; the call's
\* failure on a child that has exited is ignored.
R_Kill ==
    /\ rpc = "kill"
    /\ IF child = "running"
       THEN child' = "exited" /\ child_status' = "killed"
       ELSE UNCHANGED << child, child_status >>
    /\ rpc' = "wait"
    /\ UNCHANGED << engineVars, pureVars,
                    env, descendant_alive, stdin_left, stdin_open,
                    stdin_pipe, stdout_pipe, stderr_pipe, child_io, drain,
                    timed_out, status, r_result >>

\* child.wait().context("failed waiting killed process")?
R_Wait ==
    /\ rpc = "wait"
    /\ child = "exited"
    /\ IF env.fault = "wait"
       THEN /\ Return(RunErr)
            /\ UNCHANGED << child, status >>
       ELSE /\ child' = "reaped"
            /\ status' = child_status
            /\ rpc' = "join_stdout"
            /\ UNCHANGED r_result
    /\ UNCHANGED << engineVars, pureVars,
                    env, child_status, descendant_alive, stdin_left,
                    stdin_open, stdin_pipe, stdout_pipe, stderr_pipe, child_io,
                    drain, timed_out >>

\* stdout_handle.join(): blocks until the thread has finished.
CanJoinStdout == rpc = "join_stdout" /\ drain.stdout.state = "done"

R_JoinStdout ==
    /\ CanJoinStdout
    /\ rpc' = "join_stderr"
    /\ UNCHANGED << engineVars, pureVars,
                    env, child, child_status, descendant_alive,
                    stdin_left, stdin_open, stdin_pipe, stdout_pipe,
                    stderr_pipe, child_io, drain, timed_out, status, r_result >>

\* stderr_handle.join(), then Ok(RunOutput { .. }).
CanJoinStderr == rpc = "join_stderr" /\ drain.stderr.state = "done"

R_JoinStderr ==
    /\ CanJoinStderr
    /\ Return(RunOutput(timed_out, status = "success",
                        Utf8Lossy(drain.stdout.buf)))
    /\ UNCHANGED << engineVars, pureVars,
                    env, child, child_status, descendant_alive,
                    stdin_left, stdin_open, stdin_pipe, stdout_pipe,
                    stderr_pipe, child_io, drain, timed_out, status >>

\* The threads' read_to_end: a byte is taken from the pipe; end of file is
\* seen once the pipe is empty and no process holds its write end.
CanDrain(stream, pipe) ==
    /\ drain[stream].state = "reading"
    /\ pipe # << >> \/ ~PipesHeld

Drained(stream, pipe) ==
    IF pipe # << >>
    THEN [drain EXCEPT ![stream].buf = Append(@, Head(pipe))]
    ELSE [drain EXCEPT ![stream].state = "done"]

DrainStdout ==
    /\ CanDrain("stdout", stdout_pipe)
    /\ drain' = Drained("stdout", stdout_pipe)
    /\ stdout_pipe' = IF stdout_pipe # << >> THEN Tail(stdout_pipe) ELSE << >>
    /\ UNCHANGED << engineVars, pureVars,
                    env, rpc, child, child_status, descendant_alive,
                    stdin_left, stdin_open, stdin_pipe, stderr_pipe, child_io,
                    timed_out, status, r_result >>

DrainStderr ==
    /\ CanDrain("stderr", stderr_pipe)
    /\ drain' = Drained("stderr", stderr_pipe)
    /\ stderr_pipe' = IF stderr_pipe # << >> THEN Tail(stderr_pipe) ELSE << >>
    /\ UNCHANGED << engineVars, pureVars,
                    env, rpc, child, child_status, descendant_alive,
                    stdin_left, stdin_open, stdin_pipe, stdout_pipe, child_io,
                    timed_out, status, r_result >>

\* The child reads a byte of its stdin, or sees its end once the parent has
\* closed it.
CanChildRead ==
    /\ child = "running"
    /\ env.reads_stdin
    /\ ~child_io.eof
    /\ env.order = "write_first" => child_io.out = << >> /\ child_io.err = << >>
    /\ stdin_pipe # << >> \/ ~stdin_open

ChildRead ==
    /\ CanChildRead
    /\ IF stdin_pipe # << >>
       THEN stdin_pipe' = Tail(stdin_pipe) /\ UNCHANGED child_io
       ELSE child_io' = [child_io EXCEPT !.eof = TRUE] /\ UNCHANGED stdin_pipe
    /\ UNCHANGED << engineVars, pureVars,
                    env, rpc, child, child_status, descendant_alive,
                    stdin_left, stdin_open, stdout_pipe, stderr_pipe, drain,
                    timed_out, status, r_result >>

\* The child is at a point of its program where it writes.
ChildWrites == env.order = "read_first" => child_io.eof

\* The child writes a byte; it blocks while the pipe is full.
CanChildWriteOut ==
    /\ child = "running"
    /\ ChildWrites
    /\ child_io.out # << >>
    /\ Len(stdout_pipe) < PipeCapacity

ChildWriteOut ==
    /\ CanChildWriteOut
    /\ stdout_pipe' = Append(stdout_pipe, Head(child_io.out))
    /\ child_io' = [child_io EXCEPT !.out = Tail(@)]
    /\ UNCHANGED << engineVars, pureVars,
                    env, rpc, child, child_status, descendant_alive,
                    stdin_left, stdin_open, stdin_pipe, stderr_pipe, drain,
                    timed_out, status, r_result >>

CanChildWriteErr ==
    /\ child = "running"
    /\ ChildWrites
    /\ child_io.err # << >>
    /\ Len(stderr_pipe) < PipeCapacity

ChildWriteErr ==
    /\ CanChildWriteErr
    /\ stderr_pipe' = Append(stderr_pipe, Head(child_io.err))
    /\ child_io' = [child_io EXCEPT !.err = Tail(@)]
    /\ UNCHANGED << engineVars, pureVars,
                    env, rpc, child, child_status, descendant_alive,
                    stdin_left, stdin_open, stdin_pipe, stdout_pipe, drain,
                    timed_out, status, r_result >>

\* The child exits by itself when it has written everything and, if it reads
\* its input, has read all of it.
CanChildExit ==
    /\ child = "running"
    /\ env.exits
    /\ child_io.out = << >>
    /\ child_io.err = << >>
    /\ env.reads_stdin => child_io.eof

ChildExit ==
    /\ CanChildExit
    /\ child' = "exited"
    /\ child_status' = IF env.exit_success THEN "success" ELSE "failure"
    /\ UNCHANGED << engineVars, pureVars,
                    env, rpc, descendant_alive, stdin_left,
                    stdin_open, stdin_pipe, stdout_pipe, stderr_pipe, child_io,
                    drain, timed_out, status, r_result >>

CanDescendantExit == descendant_alive /\ env.descendant = "exits"

DescendantExit ==
    /\ CanDescendantExit
    /\ descendant_alive' = FALSE
    /\ UNCHANGED << engineVars, pureVars,
                    env, rpc, child, child_status, stdin_left,
                    stdin_open, stdin_pipe, stdout_pipe, stderr_pipe, child_io,
                    drain, timed_out, status, r_result >>

\* The configuration of an engine that has nothing to run.
IdleConfig ==
    [cases |-> 0, candidates |-> 1, workers |-> 1, stop_on_first_fail |-> TRUE,
     normalize |-> [trim_trailing_ws |-> TRUE, ignore_final_newline |-> TRUE]]

RunnerInit ==
    /\ config = IdleConfig
    /\ programs \in ProgramTables(config)
    /\ PoolStart
    /\ earlier = << >>
    /\ PureIdle
    /\ env \in RunnerEnvs
    /\ rpc = "spawn"
    /\ child = "none"
    /\ child_status = "none"
    /\ descendant_alive = FALSE
    /\ stdin_left = << >>
    /\ stdin_open = FALSE
    /\ stdin_pipe = << >>
    /\ stdout_pipe = << >>
    /\ stderr_pipe = << >>
    /\ child_io = [eof |-> FALSE, out |-> << >>, err |-> << >>]
    /\ drain = [stdout |-> [state |-> "none", buf |-> << >>],
                stderr |-> [state |-> "none", buf |-> << >>]]
    /\ timed_out = FALSE
    /\ status = "none"
    /\ r_result = << >>

\* A step of run_command itself.
RunCommandStep ==
    \/ R_Spawn
    \/ R_WriteStdin
    \/ R_StartDrains
    \/ R_WaitTimeout
    \/ R_Kill
    \/ R_Wait
    \/ R_JoinStdout
    \/ R_JoinStderr

RunnerNext ==
    \/ RunCommandStep
    \/ DrainStdout
    \/ DrainStderr
    \/ ChildRead
    \/ ChildWriteOut
    \/ ChildWriteErr
    \/ ChildExit
    \/ DescendantExit

RunnerSpec == RunnerInit /\ [][RunnerNext]_vars

\* -------------------------------------------------------------- the generator
\* src/src/generator.rs.  The model's i64 is eight bits wide; the i128 of
\* interpolate is the unbounded integer.  A ParsedInput is [min, max]; a case
\* is a sequence of values, one per field.

INT_BITS == 8
INT_MIN == -128
INT_MAX == 127

Min(a, b) == IF a <= b THEN a ELSE b
Max(a, b) == IF a >= b THEN a ELSE b

\* `value as i64`: the low bits, two's complement.
AsInt(v) == ((v - INT_MIN) % (2 ^ INT_BITS)) + INT_MIN

saturating_add(a, b) == Max(INT_MIN, Min(INT_MAX, a + b))
saturating_sub(a, b) == Max(INT_MIN, Min(INT_MAX, a - b))
saturating_mul(a, b) == Min(USIZE_MAX, a * b)

\* Integer division of Rust: towards zero.
TruncDiv(a, b) == IF a >= 0 THEN a \div b ELSE -((-a) \div b)

\* A variant of interpolate128 that computes the difference and the product
\* in i64, wrapping.
interpolate128_narrow(min, max, num, den) ==
    min + TruncDiv(AsInt(AsInt(max - min) * num), den)

\* The i128 value of interpolate, before `as i64`.
interpolate128(min, max, num, den) == min + TruncDiv((max - min) * num, den)

interpolate(min, max, num, den) == AsInt(interpolate128(min, max, num, den))

midpoint(min, max) == interpolate(min, max, 1, 2)

\* The iteration of a BTreeSet: ascending.
RECURSIVE Ascending(_)
Ascending(set) ==
    IF set = {} THEN << >>
    ELSE LET least == CHOOSE v \in set : \A w \in set : v <= w
         IN  << least >> \o Ascending(set \ {least})

InRange(spec, v) == spec.min <= v /\ v <= spec.max

edge_values(spec) ==
    Ascending({ v \in { spec.min, saturating_add(spec.min, 1),
                        saturating_sub(spec.max, 1), spec.max, 0, 1, -1 } :
                InRange(spec, v) })

partition_points(spec) ==
    Ascending({ spec.min,
                interpolate(spec.min, spec.max, 1, 4),
                midpoint(spec.min, spec.max),
                interpolate(spec.min, spec.max, 3, 4),
                spec.max }
              \cup (IF InRange(spec, 0) THEN {0} ELSE {}))

\* A variant of push_unique that pushes a tuple that is present already.
push_unique_always(out, values, budget) ==
    IF Len(out) >= budget THEN out ELSE Append(out, values)

push_unique(out, values, budget) ==
    IF Len(out) >= budget THEN out
    ELSE IF \E n \in 1..Len(out) : out[n] = values THEN out
    ELSE Append(out, values)

\* The tuples of the first recipes; field idx of the source is idx + 1 here.
Mids(specs) == [n \in 1..Len(specs) |-> midpoint(specs[n].min, specs[n].max)]
AllMin(specs) == [n \in 1..Len(specs) |-> specs[n].min]

\* A variant of the all-max recipe that repeats the midpoints.
AllMax_mids(specs) ==
    [n \in 1..Len(specs) |-> midpoint(specs[n].min, specs[n].max)]

AllMax(specs) == [n \in 1..Len(specs) |-> specs[n].max]

\* A variant of the alternating recipe that starts with the maximum.
AltMinMax_max_first(specs) ==
    [n \in 1..Len(specs) |->
        IF (n - 1) % 2 = 0 THEN specs[n].max ELSE specs[n].min]

AltMinMax(specs) ==
    [n \in 1..Len(specs) |->
        IF (n - 1) % 2 = 0 THEN specs[n].min ELSE specs[n].max]
AltMaxMin(specs) ==
    [n \in 1..Len(specs) |->
        IF (n - 1) % 2 = 0 THEN specs[n].max ELSE specs[n].min]

\* for (idx, spec) in specs { for edge in edge_values(spec) { .. } }: from
\* field idx and its e-th edge on.  `returned` says the function returned
\* inside the loop.
RECURSIVE PerFieldEdges(_, _, _, _, _)
PerFieldEdges(out, specs, budget, idx, e) ==
    IF idx > Len(specs) THEN [out |-> out, returned |-> FALSE]
    ELSE IF e > Len(edge_values(specs[idx]))
         THEN PerFieldEdges(out, specs, budget, idx + 1, 1)
    ELSE LET candidate ==
                 [Mids(specs) EXCEPT ![idx] = edge_values(specs[idx])[e]]
             pushed == push_unique(out, candidate, budget)
         IN  IF Len(pushed) >= budget
             THEN [out |-> pushed, returned |-> TRUE]
             ELSE PerFieldEdges(pushed, specs, budget, idx, e + 1)

RECURSIVE total_cartesian(_, _)
total_cartesian(edge_sets, n) ==
    IF n > Len(edge_sets) THEN 1
    ELSE LET rest == total_cartesian(edge_sets, n + 1)
         IN  saturating_mul(Len(edge_sets[n]), rest)

\* cartesian_collect; `k` is the position of the loop over edge_sets[depth]
\* (depth is 0-based as in the source).
RECURSIVE cartesian_collect(_, _, _, _, _, _)
cartesian_collect(edge_sets, depth, stack, out, budget, k) ==
    IF Len(out) >= budget THEN out
    ELSE IF depth = Len(edge_sets) THEN push_unique(out, stack, budget)
    ELSE IF k > Len(edge_sets[depth + 1]) THEN out
    ELSE LET inner == cartesian_collect(edge_sets, depth + 1,
                          Append(stack, edge_sets[depth + 1][k]), out, budget, 1)
         IN  cartesian_collect(edge_sets, depth, stack, inner, budget, k + 1)

extend_edge_cases(out, specs, budget, max_cartesian_cases) ==
    IF budget = 0 \/ specs = << >> THEN out
    ELSE LET s1 == push_unique(out, Mids(specs), budget)
             s2 == push_unique(s1, AllMin(specs), budget)
             s3 == push_unique(s2, AllMax(specs), budget)
             s4 == push_unique(s3, AltMinMax(specs), budget)
             s5 == push_unique(s4, AltMaxMin(specs), budget)
             loop == PerFieldEdges(s5, specs, budget, 1, 1)
             edge_sets == [n \in 1..Len(specs) |-> edge_values(specs[n])]
             total == total_cartesian(edge_sets, 1)
         IN  IF loop.returned THEN loop.out
             ELSE IF total = 0 \/ total > max_cartesian_cases THEN loop.out
             ELSE cartesian_collect(edge_sets, 0, << >>, loop.out, budget, 1)

\* The while loop of extend_partition_cases, from `cursor` on.
RECURSIVE PartitionLoop(_, _, _, _)
\* A variant of cursor_limit that lets the cursor go twice as far.
cursor_limit_eight(budget) == saturating_mul(budget, 8)

\* budget.saturating_mul(4): the cursor value beyond which the loop breaks.
cursor_limit(budget) == saturating_mul(budget, 4)

\* The list the loop leaves, and the value of `cursor` it ends with: the
\* number of times its body was executed.
PartitionLoop(out, partition_values, budget, cursor) ==
    IF ~(Len(out) < budget) THEN [out |-> out, cursor |-> cursor]
    ELSE LET values ==
                 [n \in 1..Len(partition_values) |->
                     partition_values[n][((cursor + (n - 1))
                                          % Len(partition_values[n])) + 1]]
             pushed == push_unique(out, values, budget)
         IN  IF cursor + 1 > cursor_limit(budget)
             THEN [out |-> pushed, cursor |-> cursor + 1]
             ELSE PartitionLoop(pushed, partition_values, budget, cursor + 1)

extend_partition_cases(out, specs, budget) ==
    IF budget = 0 \/ specs = << >> THEN out
    ELSE PartitionLoop(out,
                       [n \in 1..Len(specs) |-> partition_points(specs[n])],
                       budget, 0).out

\* The seed is a u64, here eight bits wide; seed_to_bytes gives the four
\* words seed + i, wrapping.
SEED_MODULUS == 256

seed_to_bytes(seed) == [n \in 1..4 |-> (seed + (n - 1)) % SEED_MODULUS]

\* TestRng::from_seed(ChaCha, bytes) and its stream stand for a function of
\* the seed bytes alone: a linear congruential stream of RNG_MODULUS states.
RNG_MODULUS == 64

from_seed(bytes) ==
    (bytes[1] + 3 * bytes[2] + 5 * bytes[3] + 7 * bytes[4]) % RNG_MODULUS

\* A variant of build_proptest_runner that goes on with the generator an
\* earlier call left behind.
build_proptest_runner_kept(seed) ==
    IF gen_rets = << >> THEN from_seed(seed_to_bytes(seed)) ELSE gen_rng

build_proptest_runner(seed) == from_seed(seed_to_bytes(seed))

next_state(rng) == (5 * rng + 3) % RNG_MODULUS

\* A variant of new_tree that draws from min..=max + 1.
new_tree_beyond(spec, rng) ==
    spec.min + (next_state(rng) % (spec.max - spec.min + 2))

\* (spec.min..=spec.max).new_tree(&mut runner).current(): a value of the
\* interval, drawn with the generator's next output.
new_tree(spec, rng) == spec.min + (next_state(rng) % (spec.max - spec.min + 1))

\* The values of one random case, from field n on, and the generator after it.
RECURSIVE RandomCase(_, _, _, _)
RandomCase(specs, n, values, rng) ==
    IF n > Len(specs) THEN [values |-> values, rng |-> rng]
    ELSE RandomCase(specs, n + 1, Append(values, new_tree(specs[n], rng)),
                    next_state(rng))

RECURSIVE RandomCases(_, _, _, _)
RandomCases(specs, count, out, rng) ==
    IF count = 0 THEN [out |-> out, rng |-> rng]
    ELSE LET case == RandomCase(specs, 1, << >>, rng)
         IN  RandomCases(specs, count - 1, Append(out, case.values), case.rng)

generate_random_cases(specs, count, seed) ==
    IF count = 0 THEN [out |-> << >>, rng |-> gen_rng]
    ELSE RandomCases(specs, count, << >>, build_proptest_runner(seed))

\* i64::to_string.
DigitChars == << "0", "1", "2", "3", "4", "5", "6", "7", "8", "9" >>

RECURSIVE Digits(_)
Digits(n) ==
    IF n < 10 THEN << DigitChars[n + 1] >>
    ELSE Digits(n \div 10) \o << DigitChars[(n % 10) + 1] >>

to_string(n) == IF n < 0 THEN << "-" >> \o Digits(-n) ELSE Digits(n)

RECURSIVE JoinWords(_)
JoinWords(words) ==
    IF words = << >> THEN << >>
    ELSE IF Len(words) = 1 THEN words[1]
    ELSE words[1] \o << SP >> \o JoinWords(Tail(words))

format_case(values) ==
    JoinWords([n \in 1..Len(values) |-> to_string(values[n])]) \o << LF >>

\* A ratio is a number of tenths: RATIO_DEN stands for 1.0.
RATIO_DEN == 10

\* ((cases as f64) * ratio).round() as usize, for a ratio that is not negative.
Budget(cases, ratio) == (2 * cases * ratio + RATIO_DEN) \div (2 * RATIO_DEN)

\* validate_pbt_config(pbt) is Ok.
validate_pbt_config(pbt) ==
    /\ 0 <= pbt.edge_case_ratio /\ pbt.edge_case_ratio <= RATIO_DEN
    /\ 0 <= pbt.partition_ratio /\ pbt.partition_ratio <= RATIO_DEN
    /\ ~(pbt.edge_case_ratio + pbt.partition_ratio > RATIO_DEN)
    /\ pbt.max_cartesian_cases # 0

GenErr == [ok |-> FALSE, corpus |-> << >>]
GenOk(corpus) == [ok |-> TRUE, corpus |-> corpus]

\* The seeded cases of generate_inputs, for a valid pbt.
SeededCases(specs, cases, pbt) ==
    IF ~pbt.enabled THEN << >>
    ELSE LET edge_budget == Budget(cases, pbt.edge_case_ratio)
             partition_budget == Budget(cases, pbt.partition_ratio)
             edges == extend_edge_cases(<< >>, specs, edge_budget,
                                        pbt.max_cartesian_cases)
         IN  extend_partition_cases(edges, specs, partition_budget)

\* if seeded_cases.len() > cases { seeded_cases.truncate(cases) }
Truncate(seeded_cases, cases) ==
    IF Len(seeded_cases) > cases THEN SubSeq(seeded_cases, 1, cases)
    ELSE seeded_cases

\* A variant of random_needed that asks for `cases` random cases.
random_needed_all(cases, seeded_len) == cases

\* cases.saturating_sub(seeded_cases.len())
random_needed(cases, seeded_len) == Max(0, cases - seeded_len)

\* generate_inputs: its result, and the generator it leaves behind.
generate_inputs(specs, cases, seed, pbt) ==
    IF cases = 0 THEN [result |-> GenOk(<< >>), rng |-> gen_rng]
    ELSE IF pbt.enabled /\ ~validate_pbt_config(pbt)
         THEN [result |-> GenErr, rng |-> gen_rng]
    ELSE LET seeded_cases == Truncate(SeededCases(specs, cases, pbt), cases)
             random == generate_random_cases(
                           specs, random_needed(cases, Len(seeded_cases)), seed)
             all_cases == seeded_cases \o random.out
         IN  [result |-> GenOk([n \in 1..Len(all_cases) |->
                                    format_case(all_cases[n])]),
              rng |-> random.rng]

\* The calls of generate_inputs that are looked at.
MaxFields == 2
MaxCorpus == 4
MaxGenCalls == 2

GenIntervals ==
    { [min |-> 0, max |-> 0], [min |-> -1, max |-> 1], [min |-> 1, max |-> 9],
      [min |-> -3, max |-> -2], [min |-> 0, max |-> 1] }

GenSpecs == UNION { [1..n -> GenIntervals] : n \in 1..MaxFields }

\* Ratios in tenths: below 0, 0, the default 0.2, 0.5, 1.0 and above 1.
Ratios == { -1, 0, 2, 5, 10, 11 }

Pbts ==
    [enabled : BOOLEAN, edge_case_ratio : Ratios, partition_ratio : Ratios,
     max_cartesian_cases : {0, 2, 128}]

Seeds == { 42, SEED_MODULUS - 1 }

\* The call of tests::seeded_generation_includes_edges: two fields in [1, 9],
\* 30 cases, seed 42, Pbt::default().
TestCall ==
    [specs |-> << [min |-> 1, max |-> 9], [min |-> 1, max |-> 9] >>,
     cases |-> 30, seed |-> 42,
     pbt |-> [enabled |-> TRUE, edge_case_ratio |-> 2, partition_ratio |-> 2,
              max_cartesian_cases |-> 128]]

\* Calls whose edge budget outlasts the per-field recipes: the same two
\* fields, 16 cases, all of them for the edge phase, with a Cartesian product
\* of 16 tuples that is within max_cartesian_cases or beyond it.
CartesianCalls ==
    { [specs |-> << [min |-> 1, max |-> 9], [min |-> 1, max |-> 9] >>,
       cases |-> 16, seed |-> 42,
       pbt |-> [enabled |-> TRUE, edge_case_ratio |-> RATIO_DEN,
                partition_ratio |-> 0, max_cartesian_cases |-> c]] :
        c \in {2, 128} }

GenCalls ==
    [specs : GenSpecs, cases : 0..MaxCorpus, seed : Seeds, pbt : Pbts]
        \cup { TestCall } \cup CartesianCalls

\* The engine has nothing to run.
EngineIdle ==
    /\ config = IdleConfig
    /\ programs \in ProgramTables(config)
    /\ PoolStart
    /\ earlier = << >>

GenInit ==
    /\ EngineIdle
    /\ RunnerIdle
    /\ BoundsIdle
    /\ NormIdle
    /\ ProgramIdle
    /\ PartitionIdle
    /\ gen_call \in GenCalls
    /\ gen_rets = << >>
    /\ gen_rng = 0

\* One call of generate_inputs with the arguments of gen_call.
GenerateInputs ==
    /\ gen_call \in GenCalls
    /\ Len(gen_rets) < MaxGenCalls
    /\ LET call == generate_inputs(gen_call.specs, gen_call.cases,
                                   gen_call.seed, gen_call.pbt)
       IN  /\ gen_rets' = Append(gen_rets, call.result)
           /\ gen_rng' = call.rng
    /\ UNCHANGED << engineVars, runnerVars, gen_call, pb_call, pb_rets,
                    norm_call, norm_rets,
                    prog_call, prog_rets, part_call, part_rets >>

GenNext == GenerateInputs

GenSpec == GenInit /\ [][GenNext]_vars

\* ------------------------------------------------------------- parse_bounds
\* An InputSpec is [min, max, range], an Option being << >> (None) or << v >>
\* (Some(v)); the range is a string.

DEFAULT_MIN == -100
DEFAULT_MAX == 100

IsDigit(c) == \E n \in 1..10 : DigitChars[n] = c

DigitValue(c) == (CHOOSE n \in 1..10 : DigitChars[n] = c) - 1

\* str::split(&[',', '&'][..])
RECURSIVE SplitTokens(_, _)
SplitTokens(s, cur) ==
    IF s = << >> THEN << cur >>
    ELSE IF Head(s) \in {",", "&"} THEN << cur >> \o SplitTokens(Tail(s), << >>)
    ELSE SplitTokens(Tail(s), Append(cur, Head(s)))

RECURSIVE TrimStart(_)
TrimStart(s) ==
    IF s # << >> /\ IsWhitespace(Head(s)) THEN TrimStart(Tail(s)) ELSE s

\* str::trim
Trim(s) == TrimStart(TrimEnd(s))

StartsWith(s, prefix) ==
    Len(s) >= Len(prefix) /\ SubSeq(s, 1, Len(prefix)) = prefix

\* The group (<=|>=|<|>|==) at the start of the token; << >> when there is
\* none.  What follows a one-character operator must be blank, sign or digit,
\* so the first alternative that matches is the one of every match.
OperatorOf(token) ==
    IF StartsWith(token, << "<", "=" >>) THEN << "<", "=" >>
    ELSE IF StartsWith(token, << ">", "=" >>) THEN << ">", "=" >>
    ELSE IF StartsWith(token, << "<" >>) THEN << "<" >>
    ELSE IF StartsWith(token, << ">" >>) THEN << ">" >>
    ELSE IF StartsWith(token, << "=", "=" >>) THEN << "=", "=" >>
    ELSE << >>

\* The digits are a number: str::parse::<i64> of the group (-?\d+), which is
\* None when the number does not fit.
RECURSIVE ParseDigits(_, _)
ParseDigits(digits, acc) ==
    IF digits = << >> THEN acc
    ELSE ParseDigits(Tail(digits), 10 * acc + DigitValue(Head(digits)))

ParseInt(text) ==
    LET negative == text # << >> /\ Head(text) = "-"
        digits == IF negative THEN Tail(text) ELSE text
        value == IF negative THEN -ParseDigits(digits, 0)
                 ELSE ParseDigits(digits, 0)
    IN  IF digits = << >> \/ \E n \in 1..Len(digits) : ~IsDigit(digits[n])
        THEN << >>
        ELSE IF value < INT_MIN \/ value > INT_MAX THEN << >>
        ELSE << value >>

\* parse_constraint: << >> is None, << [op, value] >> is Some((op, value)).
parse_constraint(token) ==
    LET op == OperatorOf(token)
        rest == TrimStart(SubSeq(token, Len(op) + 1, Len(token)))
        value == ParseInt(rest)
    IN  IF op = << >> \/ value = << >> THEN << >>
        ELSE << [op |-> op, value |-> value[1]] >>

\* The results of parse_bounds: Ok((min, max)), Err(..), or a panic on an
\* arithmetic overflow in a build with overflow checks.
BoundsOk(min, max) == [kind |-> "ok", min |-> min, max |-> max]
BoundsErr(why) == [kind |-> "err", why |-> why]
BoundsPanic == [kind |-> "panic"]

\* value + 1 and value - 1 on i64: in range, or else a panic (overflow
\* checks on) or the wrapped value (overflow checks off).
Overflows(v) == v < INT_MIN \/ v > INT_MAX

\* match op { .. }: the new (min, max), the arithmetic wrapping.
ApplyToken(b, op, value) ==
    IF op = << ">" >> THEN [b EXCEPT !.min = Max(b.min, AsInt(value + 1))]
    ELSE IF op = << ">", "=" >> THEN [b EXCEPT !.min = Max(b.min, value)]
    ELSE IF op = << "<" >> THEN [b EXCEPT !.max = Min(b.max, AsInt(value - 1))]
    ELSE IF op = << "<", "=" >> THEN [b EXCEPT !.max = Min(b.max, value)]
    ELSE [min |-> value, max |-> value]

TokenOverflows(op, value) ==
    \/ op = << ">" >> /\ Overflows(value + 1)
    \/ op = << "<" >> /\ Overflows(value - 1)

\* if min > max { bail!(..) }; Ok((min, max))
FinalCheck(b) ==
    IF b.min > b.max THEN BoundsErr("invalid bounds") ELSE BoundsOk(b.min, b.max)

\* for token in range.split(..) { .. }, from the n-th token on.
RECURSIVE TokenLoop(_, _, _, _)
TokenLoop(tokens, n, b, overflow_checks) ==
    IF n > Len(tokens) THEN FinalCheck(b)
    ELSE LET token == Trim(tokens[n])
             parsed == parse_constraint(token)
         IN  IF token = << >> THEN TokenLoop(tokens, n + 1, b, overflow_checks)
             ELSE IF parsed = << >> THEN BoundsErr("unsupported token")
             ELSE IF overflow_checks
                     /\ TokenOverflows(parsed[1].op, parsed[1].value)
                  THEN BoundsPanic
             ELSE TokenLoop(tokens, n + 1,
                            ApplyToken(b, parsed[1].op, parsed[1].value),
                            overflow_checks)

unwrap_or(option, default) == IF option = << >> THEN default ELSE option[1]

parse_bounds(spec, overflow_checks) ==
    LET primed == [min |-> unwrap_or(spec.min, DEFAULT_MIN),
                   max |-> unwrap_or(spec.max, DEFAULT_MAX)]
    IN  IF spec.range = << >> THEN FinalCheck(primed)
        ELSE TokenLoop(SplitTokens(spec.range[1], << >>), 1, primed,
                       overflow_checks)

\* The calls of parse_bounds that are looked at.  A range is written from
\* tokens: `text` is what stands in the range; a token of kind "good" is
\* `op value`, one of kind "empty" trims to nothing, one of kind "bad" is
\* outside the grammar.
MaxTokens == 2

Operators ==
    { << "<", "=" >>, << ">", "=" >>, << "<" >>, << ">" >>, << "=", "=" >> }

GoodToken(op, value, text) ==
    [kind |-> "good", op |-> op, value |-> value, text |-> text]

OtherToken(kind, text) ==
    [kind |-> kind, op |-> << >>, value |-> 0, text |-> text]

\* `op value` written without blanks.
CompactTokens ==
    { GoodToken(op, v, op \o to_string(v)) : op \in Operators, v \in {-1, 3} }

\* `> v` and `< v` at the ends of the integer range.
ExtremeTokens ==
    { GoodToken(<< ">" >>, INT_MAX, << ">" >> \o to_string(INT_MAX)),
      GoodToken(<< "<" >>, INT_MIN, << "<" >> \o to_string(INT_MIN)) }

\* The tokens of the tests, with their blanks: ">= 1", " <= 9", "> 0".
SpacedTokens ==
    { GoodToken(<< ">", "=" >>, 1, << ">", "=", SP, "1" >>),
      GoodToken(<< "<", "=" >>, 9, << SP, "<", "=", SP, "9" >>),
      GoodToken(<< ">" >>, 0, << ">", SP, "0" >>) }

EmptyTokens == { OtherToken("empty", << >>), OtherToken("empty", << SP >>) }

\* "=1", "1", ">=", "> =1", and a number that does not fit.
BadTokens ==
    { OtherToken("bad", << "=", "1" >>),
      OtherToken("bad", << "1" >>),
      OtherToken("bad", << ">", "=" >>),
      OtherToken("bad", << ">", SP, "=", "1" >>),
      OtherToken("bad", << ">", "=" >> \o to_string(INT_MAX + 1)) }

Tokens ==
    CompactTokens \cup ExtremeTokens \cup SpacedTokens \cup EmptyTokens
        \cup BadTokens

\* The token that is appended to the range for the second call.
ExtraTokens == CompactTokens \cup ExtremeTokens

\* The range written from the tokens: separated by ',' and '&' in turn.
RECURSIVE RangeText(_, _)
RangeText(tokens, n) ==
    IF n > Len(tokens) THEN << >>
    ELSE IF n = Len(tokens) THEN tokens[n].text
    ELSE tokens[n].text \o << IF n % 2 = 1 THEN "," ELSE "&" >>
             \o RangeText(tokens, n + 1)

\* min and max of the InputSpec: absent, both given, only max given.
MinMaxes ==
    { [min |-> << >>, max |-> << >>], [min |-> << 5 >>, max |-> << 10 >>],
      [min |-> << >>, max |-> << 0 >>] }

\* A call: the InputSpec's min, max and range, the tokens the range is written
\* from, the token appended for the second call, and the build.
BoundsCall(minmax, has_range, tokens, extra, overflow_checks) ==
    [min |-> minmax.min, max |-> minmax.max,
     range |-> IF has_range THEN << RangeText(tokens, 1) >> ELSE << >>,
     tokens |-> tokens, extra |-> extra, overflow_checks |-> overflow_checks]

BoundsCalls ==
    { BoundsCall(mm, TRUE, ts, x, oc) :
        mm \in MinMaxes,
        ts \in UNION { [1..n -> Tokens] : n \in 0..MaxTokens },
        x \in ExtraTokens, oc \in BOOLEAN }
    \cup { BoundsCall(mm, FALSE, << >>, x, oc) :
             mm \in MinMaxes, x \in ExtraTokens, oc \in BOOLEAN }

\* The InputSpec of the call, and the one with the extra token appended.
SpecOf(call) == [min |-> call.min, max |-> call.max, range |-> call.range]

LongerSpecOf(call) ==
    [min |-> call.min, max |-> call.max,
     range |-> << RangeText(Append(call.tokens, call.extra), 1) >>]

BoundsInit ==
    /\ EngineIdle
    /\ RunnerIdle
    /\ GenIdle
    /\ NormIdle
    /\ ProgramIdle
    /\ PartitionIdle
    /\ pb_call \in BoundsCalls
    /\ pb_rets = << >>

\* parse_bounds(spec)
ParseBounds ==
    /\ pb_rets = << >>
    /\ pb_rets' = << parse_bounds(SpecOf(pb_call), pb_call.overflow_checks) >>
    /\ UNCHANGED << engineVars, runnerVars, gen_call, gen_rets, gen_rng,
                    pb_call, norm_call, norm_rets,
                    prog_call, prog_rets, part_call, part_rets >>

\* parse_bounds of the spec with one more token in its range.
ParseLonger ==
    /\ Len(pb_rets) = 1
    /\ pb_rets' = Append(pb_rets, parse_bounds(LongerSpecOf(pb_call),
                                               pb_call.overflow_checks))
    /\ UNCHANGED << engineVars, runnerVars, gen_call, gen_rets, gen_rng,
                    pb_call, norm_call, norm_rets,
                    prog_call, prog_rets, part_call, part_rets >>

BoundsNext == ParseBounds \/ ParseLonger

BoundsSpec == BoundsInit /\ [][BoundsNext]_vars

\* ------------------------------------------------ calls of normalize_output

\* The outputs that are normalized: every text of at most MaxText characters.
MaxText == 4

TextChars == { "a", SP, CR, LF }

Texts == UNION { [1..n -> TextChars] : n \in 0..MaxText }

NormInit ==
    /\ EngineIdle
    /\ RunnerIdle
    /\ GenIdle
    /\ BoundsIdle
    /\ ProgramIdle
    /\ PartitionIdle
    /\ norm_call \in [output : Texts, normalize : Normalizes]
    /\ norm_rets = << >>

\* normalize_output(output, normalize)
Normalize ==
    /\ norm_rets = << >>
    /\ norm_rets' = << normalize_output(norm_call.output, norm_call.normalize) >>
    /\ UNCHANGED << engineVars, runnerVars, gen_call, gen_rets, gen_rng,
                    pb_call, pb_rets, norm_call,
                    prog_call, prog_rets, part_call, part_rets >>

\* normalize_output applied to its own result.
NormalizeAgain ==
    /\ Len(norm_rets) = 1
    /\ norm_rets' =
          Append(norm_rets, normalize_output(norm_rets[1], norm_call.normalize))
    /\ UNCHANGED << engineVars, runnerVars, gen_call, gen_rets, gen_rng,
                    pb_call, pb_rets, norm_call,
                    prog_call, prog_rets, part_call, part_rets >>

NormNext == Normalize \/ NormalizeAgain

NormSpec == NormInit /\ [][NormNext]_vars

\* ------------------------------------------------- calls of partition_points
\* Every ParsedInput there is: min <= max (parse_bounds returns no other).
ParsedInputs ==
    { spec \in [min : INT_MIN..INT_MAX, max : INT_MIN..INT_MAX] :
        spec.min <= spec.max }

PartitionInit ==
    /\ EngineIdle
    /\ RunnerIdle
    /\ GenIdle
    /\ BoundsIdle
    /\ NormIdle
    /\ ProgramIdle
    /\ part_call \in ParsedInputs
    /\ part_rets = << >>

\* One call of partition_points with the spec of part_call.
PartitionPoints ==
    /\ part_rets = << >>
    /\ part_rets' = << partition_points(part_call) >>
    /\ UNCHANGED << engineVars, runnerVars, gen_call, gen_rets, gen_rng,
                    pb_call, pb_rets, norm_call, norm_rets, prog_call,
                    prog_rets, part_call >>

PartitionNext == PartitionPoints

PartitionSpec == PartitionInit /\ [][PartitionNext]_vars

\* ------------------------------------------------------------- run_program
\* runner::run_program up to the spawn of run_command: the mounts, the argv
\* that is executed and whether the limits are applied to the child.  An
\* Option is << >> (None) or << v >> (Some(v)).

\* str::split(':')
RECURSIVE SplitColon(_, _)
SplitColon(s, cur) ==
    IF s = << >> THEN << cur >>
    ELSE IF Head(s) = ":" THEN << cur >> \o SplitColon(Tail(s), << >>)
    ELSE SplitColon(Tail(s), Append(cur, Head(s)))

MountSpec(host, container, mode) ==
    [host |-> host, container |-> container, mode |-> mode]

\* One iteration of parse_mounts' loop: << >> when it bails.
parse_mount(mount) ==
    LET parts == SplitColon(mount, << >>)
        host == Trim(parts[1])
        container == IF Len(parts) >= 2 THEN Trim(parts[2]) ELSE << >>
        mode == IF Len(parts) >= 3 THEN << Trim(parts[3]) >> ELSE << >>
    IN  IF host = << >> \/ container = << >> THEN << >>
        ELSE IF Len(parts) >= 4 THEN << >>
        ELSE << MountSpec(host, container,
                          IF mode # << >> /\ mode[1] # << >> THEN mode ELSE << >>) >>

\* parse_mounts: Err at the first mount that does not parse.
parse_mounts(mounts) ==
    IF \E n \in 1..Len(mounts) : parse_mount(mounts[n]) = << >>
    THEN [ok |-> FALSE, mounts |-> << >>]
    ELSE [ok |-> TRUE, mounts |-> [n \in 1..Len(mounts) |-> parse_mount(mounts[n])[1]]]

\* The directory of the configuration file.
CONFIG_DIR == << "/", "w" >>

host_path_from_mount(host, config_dir) ==
    IF Head(host) = "/" THEN host ELSE config_dir \o << "/" >> \o host

\* fs::canonicalize: an error when the path does not exist, the path itself,
\* or the path a symbolic link leads to.
canonicalize(path, fs) ==
    IF fs = "missing" THEN << >>
    ELSE IF fs = "plain" THEN << path >>
    ELSE << << "/", "r" >> \o path >>

\* fs::canonicalize(&host_path).unwrap_or(host_path)
resolved_host_path(mount, config_dir, fs) ==
    LET host_path == host_path_from_mount(mount.host, config_dir)
        canonical == canonicalize(host_path, fs)
    IN  IF canonical = << >> THEN host_path ELSE canonical[1]

render_docker_mount(mount, config_dir, fs) ==
    resolved_host_path(mount, config_dir, fs) \o << ":" >> \o mount.container
        \o (IF mount.mode # << >> THEN << ":" >> \o mount.mode[1] ELSE << >>)

\* build_local_mount_map: the HashMap as a function; a later insert of a key
\* replaces the earlier one.
RECURSIVE build_local_mount_map(_, _, _, _)
build_local_mount_map(mounts, config_dir, fs, map) ==
    IF mounts = << >> THEN map
    ELSE LET mount == Head(mounts)
             host == resolved_host_path(mount, config_dir, fs)
         IN  build_local_mount_map(
                 Tail(mounts), config_dir, fs,
                 [key \in DOMAIN map \cup {mount.container} |->
                     IF key = mount.container THEN host ELSE map[key]])

\* A variant of resolve_local_cmd that leaves the argv as it is.
resolve_local_cmd_unchanged(cmd, mounts, config_dir, fs) == cmd

resolve_local_cmd(cmd, mounts, config_dir, fs) ==
    LET mount_map == build_local_mount_map(mounts, config_dir, fs, << >>)
    IN  [n \in 1..Len(cmd) |->
            IF cmd[n] \in DOMAIN mount_map THEN mount_map[cmd[n]] ELSE cmd[n]]

\* The words of the docker command line.
DOCKER_PREFIX ==
    << << "d", "o", "c", "k", "e", "r" >>, << "r", "u", "n" >>,
       << "-", "-", "r", "m" >>, << "-", "i" >>,
       << "-", "-", "n", "e", "t", "w", "o", "r", "k" >>, << "n", "o", "n", "e" >> >>
MEMORY_FLAG == << "-", "-", "m", "e", "m", "o", "r", "y" >>
PIDS_FLAG == << "-", "-", "p", "i", "d", "s", "-", "l", "i", "m", "i", "t" >>
VOLUME_FLAG == << "-", "v" >>

build_docker_cmd(image, cmd, mounts, config_dir, limits, fs) ==
    DOCKER_PREFIX
        \o (IF limits.memory_mb # << >>
            THEN << MEMORY_FLAG, to_string(limits.memory_mb[1]) \o << "m" >> >>
            ELSE << >>)
        \o (IF limits.nproc # << >>
            THEN << PIDS_FLAG, to_string(limits.nproc[1]) >>
            ELSE << >>)
        \o Flatten([n \in 1..Len(mounts) |->
                      << VOLUME_FLAG, render_docker_mount(mounts[n], config_dir, fs) >>])
        \o << image >>
        \o cmd

\* Result<RunOutput> of run_program as far as it is looked at: an error
\* before any process is spawned, or the process that is spawned (what the
\* call returns then is run_command's business).
ProgramErr == [err |-> TRUE, spawned |-> << >>]
Spawned(argv, setrlimit) ==
    [err |-> FALSE, spawned |-> << [argv |-> argv, setrlimit |-> setrlimit] >>]

\* A variant of run_command's entry that applies the limits in both modes.
run_command_entry_limits(command_argv, mode) ==
    IF command_argv = << >> THEN ProgramErr ELSE Spawned(command_argv, TRUE)

\* run_command up to command.spawn(): the empty command bails; pre_exec
\* (apply_limits, the setrlimit calls) is installed in local mode only.
run_command_entry(command_argv, mode) ==
    IF command_argv = << >> THEN ProgramErr
    ELSE Spawned(command_argv, mode = "Local")

run_program(program, config_dir, limits, fs) ==
    LET mounts == parse_mounts(program.mounts)
    IN  IF ~mounts.ok THEN ProgramErr
        ELSE IF program.image # << >>
             THEN run_command_entry(
                      build_docker_cmd(program.image[1], program.cmd, mounts.mounts,
                                       config_dir, limits, fs),
                      "Docker")
        ELSE IF program.cmd = << >> THEN ProgramErr
        ELSE run_command_entry(
                 resolve_local_cmd(program.cmd, mounts.mounts, config_dir, fs),
                 "Local")

\* The calls of run_program that are looked at.
MaxArgv == 2
MaxMounts == 2

\* Elements of an argv: a program, and two tokens that mounts can name.
ArgvWords == { << "p" >>, << "/", "c" >>, << "/", "d" >> }

\* Mount strings: relative and absolute hosts, with and without a mode, with
\* blanks around the parts, with an empty mode, and four that do not parse.
MountStrings ==
    { << "h", ":", "/", "c" >>,
      << "/", "h", ":", "/", "c", ":", "r", "o" >>,
      << " ", "g", " ", ":", " ", "/", "d", " " >>,
      << "h", ":", "/", "d", ":" >>,
      << "h" >>,
      << ":", "/", "c" >>,
      << "h", ":", " " >>,
      << "h", ":", "/", "c", ":", "r", "o", ":", "x" >> }

IMAGE == << "i", "m", "g" >>

ProgramCalls ==
    [program : [cmd : UNION { [1..n -> ArgvWords] : n \in 0..MaxArgv },
                image : { << >>, << IMAGE >> },
                mounts : UNION { [1..n -> MountStrings] : n \in 0..MaxMounts }],
     limits : [memory_mb : { << >>, << 64 >> }, nproc : { << >>, << 8 >> }],
     fs : {"missing", "plain", "link"}]

ProgramInit ==
    /\ EngineIdle
    /\ RunnerIdle
    /\ GenIdle
    /\ BoundsIdle
    /\ NormIdle
    /\ PartitionIdle
    /\ prog_call \in ProgramCalls
    /\ prog_rets = << >>

\* One call of run_program with the arguments of prog_call.
RunProgram ==
    /\ prog_rets = << >>
    /\ prog_rets' = << run_program(prog_call.program, CONFIG_DIR,
                                   prog_call.limits, prog_call.fs) >>
    /\ UNCHANGED << engineVars, runnerVars, gen_call, gen_rets, gen_rng,
                    pb_call, pb_rets, norm_call, norm_rets, prog_call,
                    part_call, part_rets >>

ProgramNext == RunProgram

ProgramSpec == ProgramInit /\ [][ProgramNext]_vars

\* ----------------------------------------------------------------- claims

Reported == phase = "reported"

\* Origin and candidate j both ran to a successful exit on case i.
OriginSucceeds(i) ==
    LET o == programs.origin[i] IN o.ok /\ ~o.timed_out /\ o.success

\* What candidate j's run on case i is classified as (whether run or not).
ReasonOf(i, j) ==
    CandidateReason(programs.candidate[i][j],
                    normalize_output(programs.origin[i].stdout, config.normalize),
                    config.normalize)

RECURSIVE SeqSum(_)
SeqSum(s) == IF Len(s) = 0 THEN 0 ELSE s[1] + SeqSum(Tail(s))

\* The number of failures retained in the candidates' buckets.
Retained ==
    LET ks == config.candidates
    IN  SeqSum([n \in 1 .. ks |-> Len(candidate_failures[n - 1])])

\* C1: once run has returned, its exit code is 0 if and only if every
\* candidate's bucket is empty and no origin/engine failure was collected;
\* otherwise it is 1.
C1_ExitCodeZeroIff ==
    Reported =>
        /\ exit_code \in {0, 1}
        /\ exit_code = 0 <=>
              /\ \A j \in Candidates : candidate_failures[j] = << >>
              /\ infra_failures = << >>

\* C1 witness: a run returned 1 although every candidate's bucket is empty.
C1_Witness ==
    /\ Reported
    /\ exit_code = 1
    /\ \A j \in Candidates : candidate_failures[j] = << >>
    /\ infra_failures # << >>

\* Every program runs without runner error, exits successfully within its
\* timeout and prints the same bytes as the origin, on every case.
AllIdentical ==
    \A i \in Cases :
        /\ OriginSucceeds(i)
        /\ \A j \in Candidates :
              LET g == programs.candidate[i][j]
              IN  /\ g.ok /\ ~g.timed_out /\ g.success
                  /\ g.stdout = programs.origin[i].stdout

\* C2: when origin and candidates agree byte for byte on every case, run
\* returns 0 and every candidate's verdict is PASS, whatever the number of
\* workers, the interleaving and stop_on_first_fail.
C2_IdenticalOutputsPass ==
    (Reported /\ AllIdentical) =>
        /\ exit_code = 0
        /\ \A j \in Candidates : summary[j] = [verdict |-> "PASS", n |-> 0]

\* C2 witness: such a run with two workers, two cases and two candidates,
\* every pair of which was run.
C2_Witness ==
    /\ Reported
    /\ AllIdentical
    /\ config.workers = 2 /\ config.cases = 2 /\ config.candidates = 2
    /\ config.stop_on_first_fail
    /\ \A i \in Cases : runs[i] = << None, 0, 1 >>

\* C3: a candidate's verdict is FAIL(n), n the size of its bucket, when the
\* bucket is non-empty; UNKNOWN when it is empty and an origin/engine failure
\* was collected; PASS when it is empty and none was.
C3_Verdict ==
    Reported =>
        \A j \in Candidates :
            LET n == Len(candidate_failures[j])
            IN  /\ n > 0 => summary[j] = [verdict |-> "FAIL", n |-> n]
                /\ (n = 0 /\ infra_failures # << >>) =>
                      summary[j] = [verdict |-> "UNKNOWN", n |-> 0]
                /\ (n = 0 /\ infra_failures = << >>) =>
                      summary[j] = [verdict |-> "PASS", n |-> 0]

\* C3 witness: one run reports FAIL for a candidate and UNKNOWN for another.
C3_Witness ==
    /\ Reported
    /\ infra_failures # << >>
    /\ \E j, h \in Candidates :
          /\ summary[j].verdict = "FAIL"
          /\ summary[h].verdict = "UNKNOWN"

\* The failures of case i in a vector of failures.
OfCase(fs, i) == SelectSeq(fs, LAMBDA f : f.case_index = i)

\* The origin ran on case i and timed out or exited with a non-success status.
OriginBad(i) ==
    LET o == programs.origin[i] IN o.ok /\ (o.timed_out \/ ~o.success)

\* C4: a case whose origin times out or exits with a non-success status ends
\* with exactly one failure, tagged with the origin sentinel, whose reason is
\* the timeout whenever the origin timed out; no candidate is run on it and
\* the report holds no other failure of the case.
C4_OriginFailureStopsCase ==
    \A i \in Cases :
        (pc[i] = "done" /\ OriginBad(i)) =>
            /\ runs[i] = << None >>
            /\ task_failures[i] =
                  << Failure(i, None, "origin",
                             IF programs.origin[i].timed_out
                             THEN "origin timed out" ELSE "origin exited") >>
            /\ Reported => OfCase(failures, i) = task_failures[i]

\* C4 witness: the origin timed out with a non-success status (it was
\* killed) and the run has been reported.
C4_Witness ==
    /\ Reported
    /\ \E i \in Cases :
          /\ programs.origin[i].ok
          /\ programs.origin[i].timed_out
          /\ ~programs.origin[i].success

\* C5: with stop_on_first_fail, every bucket holds at most one failure after
\* aggregation, so at most k + infra_count failures are retained.
C5_AtMostOnePerCandidate ==
    (Reported /\ config.stop_on_first_fail) =>
        /\ \A j \in Candidates : Len(candidate_failures[j]) <= 1
        /\ Retained + Len(infra_failures) <= config.candidates + Len(infra_failures)

\* C5 witness: a candidate of which two failures were collected.
C5_Witness ==
    /\ Reported
    /\ config.stop_on_first_fail
    /\ \E j \in Candidates :
          Len(SelectSeq(failures, LAMBDA f : f.candidate_index = j)) >= 2

\* Candidate j fails on some case whose origin run succeeds.
FailsSomewhere(j) ==
    \E i \in Cases : OriginSucceeds(i) /\ ReasonOf(i, j) # "pass"

\* C6: with stop_on_first_fail, a candidate that fails on some case whose
\* origin run succeeds ends with a non-empty bucket (verdict FAIL), also when
\* tasks skipped it.
C6_NoFailureLost ==
    (Reported /\ config.stop_on_first_fail) =>
        \A j \in Candidates :
            FailsSomewhere(j) =>
                /\ candidate_failures[j] # << >>
                /\ summary[j].verdict = "FAIL"

\* C6 witness: a task skipped a candidate on a case on which it fails.
C6_Witness ==
    /\ Reported
    /\ config.stop_on_first_fail
    /\ \E i \in Cases, j \in Candidates :
          /\ OriginSucceeds(i)
          /\ ReasonOf(i, j) # "pass"
          /\ \A n \in 1 .. Len(runs[i]) : runs[i][n] # j

\* The failures of a vector as a bag: [failure -> number of occurrences].
Occurrences(fs, f) == Cardinality({ n \in 1 .. Len(fs) : fs[n] = f })
SameFailures(fs, gs) ==
    /\ Len(fs) = Len(gs)
    /\ \A n \in 1 .. Len(fs) : Occurrences(fs, fs[n]) = Occurrences(gs, fs[n])

\* f comes before g in the report: a lower case_index, or the same case and
\* a lower candidate index, the origin/engine sentinel behind every candidate.
InReportOrder(f, g) ==
    \/ f.case_index < g.case_index
    \/ /\ f.case_index = g.case_index
       /\ \/ g.candidate_index = None
          \/ f.candidate_index # None /\ f.candidate_index <= g.candidate_index

\* C8: whatever order the tasks' failures were collected in, the sorted
\* vector holds the same failures ordered by case_index and, within a case,
\* by candidate index with the sentinel last.
C8_SortedReport ==
    Reported =>
        /\ SameFailures(collected, failures)
        /\ \A a, b \in 1 .. Len(failures) :
              a < b => InReportOrder(failures[a], failures[b])

\* C8 witness: the failures were collected out of order, two of them of one
\* case, and one of them an origin/engine failure.
C8_Witness ==
    /\ Reported
    /\ collected # failures
    /\ \E a, b \in 1 .. Len(failures) :
          a # b /\ failures[a].case_index = failures[b].case_index
    /\ infra_failures # << >>

\* The failure recorded for candidate j's runner error on case i.
RunnerErrorOf(i, j) ==
    Failure(i, j, candidate_name(j), "candidate runner error")

Contains(fs, f) == \E n \in 1 .. Len(fs) : fs[n] = f

\* C9: no runner error aborts the run.  Until run has returned some step is
\* possible (a case can be started, a task can go on, or every task has
\* returned and the report can be made); an origin runner error leaves exactly the engine failure of its
\* case, a candidate runner error a failure of that candidate; when run
\* returns, the origin has been run on every case and the exit code is 0 or 1.
C9_RunnerErrorsAreRecorded ==
    /\ \/ Reported
       \/ \E i \in Cases : CanStart(i) \/ AtLoopHead(i) \/ AtLoopBody(i)
       \/ AllReturned
    /\ \A i \in Cases :
          /\ (pc[i] = "done" /\ ~programs.origin[i].ok) =>
                /\ task_failures[i] = << engine_failure(i) >>
                /\ runs[i] = << None >>
          /\ \A n \in 1 .. Len(runs[i]) :
                LET j == runs[i][n]
                IN  (j # None /\ ~programs.candidate[i][j].ok) =>
                        Contains(task_failures[i], RunnerErrorOf(i, j))
    /\ Reported =>
          /\ exit_code \in {0, 1}
          /\ \A i \in Cases : pc[i] = "done" /\ Len(runs[i]) >= 1 /\ runs[i][1] = None
          /\ \A i \in Cases :
                ~programs.origin[i].ok =>
                    OfCase(failures, i) = << engine_failure(i) >>
          /\ \A i \in Cases : \A j \in Candidates :
                Contains(task_failures[i], RunnerErrorOf(i, j)) =>
                    Contains(failures, RunnerErrorOf(i, j))

\* C9 witness: the origin could not be run on one case, a candidate could
\* not be run on another, and run returned.
C9_Witness ==
    /\ Reported
    /\ exit_code = 1
    /\ \E i, h \in Cases :
          /\ ~programs.origin[i].ok
          /\ \E j \in Candidates : Contains(failures, RunnerErrorOf(h, j))

\* C7: two runs on the same configuration with deterministic programs report
\* failures of the same set of case_index values, for every number of
\* workers and every schedule, stop_on_first_fail included.
C7_SameCasesTwice ==
    (Reported /\ Len(earlier) = 1) => ReportedCases = earlier[1]

\* C7, for the runs that never skip a candidate or have one worker.
C7_SameCasesTwice_NoRace ==
    (Reported /\ Len(earlier) = 1
        /\ (~config.stop_on_first_fail \/ config.workers = 1)) =>
            ReportedCases = earlier[1]

\* Some step of run_command, of its threads or of the processes can be taken.
RunnerCanStep ==
    \/ rpc \in {"spawn", "wait_timeout", "kill"}
    \/ rpc = "wait" /\ child = "exited"
    \/ CanWriteStdin
    \/ CanStartDrains
    \/ CanJoinStdout
    \/ CanJoinStderr
    \/ CanDrain("stdout", stdout_pipe)
    \/ CanDrain("stderr", stderr_pipe)
    \/ CanChildRead
    \/ CanChildWriteOut
    \/ CanChildWriteErr
    \/ CanChildExit
    \/ CanDescendantExit

\* The program of this call never exits by itself, and no system call fails.
NeverExits == rpc # "idle" /\ ~env.exits /\ env.fault = "none"

\* run_command has returned Ok with timed_out = true, the child killed and
\* reaped, and a candidate with this result gets "candidate timed out".
TimedOutResult ==
    /\ r_result[1].ok
    /\ r_result[1].timed_out
    /\ child = "reaped"
    /\ child_status = "killed"
    /\ \A n \in Normalizes :
          CandidateReason(r_result[1], OutOne, n) = "candidate timed out"

\* C10: for a program that does not exit within the timeout, run_command
\* never blocks for good (while it has not returned, some step of it, of its
\* threads or of the processes is possible), and when it returns, it returns
\* Ok with timed_out = true after killing and reaping the child, which for a
\* candidate is a "candidate timed out" failure.
C10_TimeoutNeverHangs ==
    NeverExits =>
        /\ rpc # "returned" => RunnerCanStep
        /\ rpc = "returned" => TimedOutResult

\* C10, the part that holds: whenever run_command returns for such a program,
\* the result is Ok with timed_out = true and the child is killed and reaped.
C10_TimeoutIsNotAnError ==
    (NeverExits /\ rpc = "returned") => TimedOutResult

\* C10, where it blocks for good: only in write_all, on an input larger than
\* the pipe that the child does not read (at all, or before its own blocked
\* writes), or in a join of a drain thread, when a process forked by the
\* child keeps the pipes open.
C10_HangsOnlyOnPipes ==
    (NeverExits /\ rpc # "returned" /\ ~RunnerCanStep) =>
        \/ /\ rpc = "write_stdin"
           /\ ~env.reads_stdin \/ env.order = "write_first"
           /\ Len(env.input) > PipeCapacity
        \/ /\ rpc = "join_stdout"
           /\ timed_out
           /\ child = "reaped"
           /\ env.descendant = "forever"

\* C10: a state in which the call is blocked in the join after the kill.
C10_BlockedInJoin ==
    NeverExits /\ rpc = "join_stdout" /\ timed_out /\ ~RunnerCanStep

\* C10: a state in which the call is blocked in write_all.
C10_BlockedInWrite ==
    NeverExits /\ rpc = "write_stdin" /\ ~RunnerCanStep

\* C10: a state in which the call has returned a timed-out result.
C10_ReturnedTimedOut ==
    NeverExits /\ rpc = "returned" /\ TimedOutResult

\* The child of this call reads its whole input, writes its output and exits;
\* it forks nothing and no system call fails.
ReadsAllAndExits ==
    /\ rpc # "idle"
    /\ env.reads_stdin
    /\ env.exits
    /\ env.descendant = "none"
    /\ env.fault = "none"

\* run_command has returned, without a timeout, everything the child wrote.
FullOutput ==
    /\ r_result[1].ok
    /\ r_result[1].stdout = Utf8Lossy(env.stdout)
    /\ drain.stderr.buf = env.stderr
    /\ child = "reaped"

\* C11: for a child that reads all of its stdin and writes any amount of data
\* to stdout and stderr, in any order, run_command does not deadlock (while it
\* has not returned, a step of it, of its threads or of the child is
\* possible), and when it returns without a timeout it returns the full
\* output.
C11_DrainsNeverDeadlock ==
    ReadsAllAndExits =>
        /\ rpc # "returned" => RunnerCanStep
        /\ (rpc = "returned" /\ ~timed_out) => FullOutput

\* C11, the part that holds: there is no deadlock when the input fits the
\* pipe or the child reads its whole input before it writes, and the output
\* of a call that returns without a timeout is always complete.
C11_NoDeadlockOnceStdinIsWritten ==
    ReadsAllAndExits =>
        /\ (rpc # "returned" /\ ~RunnerCanStep) =>
              /\ rpc = "write_stdin"
              /\ Len(env.input) > PipeCapacity
              /\ env.order = "write_first"
              /\ Len(stdout_pipe) = PipeCapacity \/ Len(stderr_pipe) = PipeCapacity
        /\ (rpc = "returned" /\ ~timed_out) => FullOutput

\* C11: the deadlock: run_command is blocked in write_all on a full stdin
\* pipe, the child in a write on a full output pipe that no thread drains yet.
C11_BlockedBothWays ==
    /\ ReadsAllAndExits
    /\ rpc = "write_stdin"
    /\ ~RunnerCanStep
    /\ drain.stdout.state = "none"

\* C11: a call that returned more output than a pipe holds.
C11_ReturnedLargeOutput ==
    /\ ReadsAllAndExits
    /\ rpc = "returned"
    /\ ~timed_out
    /\ Len(env.stdout) > PipeCapacity
    /\ FullOutput

\* ------------------------------------------------- claims on the generator

\* The k-th call of generate_inputs returned Ok.
GenReturnedOk(k) == k \in 1..Len(gen_rets) /\ gen_rets[k].ok

\* The pbt section of the call satisfies the documented constraints.
ValidPbt ==
    /\ gen_call.pbt.edge_case_ratio \in 0..RATIO_DEN
    /\ gen_call.pbt.partition_ratio \in 0..RATIO_DEN
    /\ gen_call.pbt.edge_case_ratio + gen_call.pbt.partition_ratio <= RATIO_DEN
    /\ gen_call.pbt.max_cartesian_cases > 0

\* C12: for every valid configuration with cases = N, PBT enabled or not,
\* generate_inputs returns Ok, and every corpus it returns has exactly N
\* input strings.
C12_CorpusHasNCases ==
    \A k \in 1..Len(gen_rets) :
        /\ ValidPbt => gen_rets[k].ok
        /\ gen_rets[k].ok => Len(gen_rets[k].corpus) = gen_call.cases

\* C12: a PBT-enabled call with seeded and random cases returned the largest
\* corpus.
C12_Witness ==
    /\ GenReturnedOk(1)
    /\ gen_call.pbt.enabled
    /\ gen_call.pbt.edge_case_ratio = 5
    /\ gen_call.cases = MaxCorpus
    /\ Len(gen_rets[1].corpus) = MaxCorpus

RECURSIVE SplitWords(_, _)
SplitWords(s, cur) ==
    IF s = << >> THEN << cur >>
    ELSE IF Head(s) = SP THEN << cur >> \o SplitWords(Tail(s), << >>)
    ELSE SplitWords(Tail(s), Append(cur, Head(s)))

WordsOf(line) == SplitWords(SubSeq(line, 1, Len(line) - 1), << >>)

\* The line is one value per field, each inside its field's interval, and a
\* newline.
CaseInBounds(line, specs) ==
    /\ line # << >>
    /\ line[Len(line)] = LF
    /\ Len(WordsOf(line)) = Len(specs)
    /\ \A n \in 1..Len(specs) :
          \E v \in specs[n].min..specs[n].max : WordsOf(line)[n] = to_string(v)

\* C14: in every case of the corpus, whichever phase produced it, there is
\* exactly one value per field and the value of field i lies in [lo_i, hi_i].
C14_ValuesInBounds ==
    \A k \in 1..Len(gen_rets) :
        \A n \in 1..Len(gen_rets[k].corpus) :
            CaseInBounds(gen_rets[k].corpus[n], gen_call.specs)

\* C14: a corpus with an edge case, a partition case and random cases.
C14_Witness ==
    /\ GenReturnedOk(1)
    /\ gen_call.pbt.enabled
    /\ gen_call.pbt.edge_case_ratio = 2
    /\ gen_call.pbt.partition_ratio = 5
    /\ gen_call.cases = MaxCorpus
    /\ Len(gen_call.specs) = MaxFields
    /\ gen_call.specs[1] = [min |-> -3, max |-> -2]

\* The line of the tuple that takes every field's lower (upper) bound.
MinLine(specs) ==
    JoinWords([n \in 1..Len(specs) |-> to_string(specs[n].min)]) \o << LF >>
MaxLine(specs) ==
    JoinWords([n \in 1..Len(specs) |-> to_string(specs[n].max)]) \o << LF >>

InCorpus(line, corpus) == \E n \in 1..Len(corpus) : corpus[n] = line

\* E = round(N * edge_case_ratio), in tenths.
EdgeBudget ==
    (2 * gen_call.cases * gen_call.pbt.edge_case_ratio + 10) \div 20

\* C15: for a PBT-enabled configuration with edge budget E >= 3, the corpus
\* contains the all-min tuple and the all-max tuple; for two fields in [1, 9],
\* N = 30 and the default ratios these are "1 1" and "9 9".
C15_MinAndMaxTuples ==
    \A k \in 1..Len(gen_rets) :
        /\ (gen_rets[k].ok /\ gen_call.pbt.enabled /\ EdgeBudget >= 3) =>
              /\ InCorpus(MinLine(gen_call.specs), gen_rets[k].corpus)
              /\ InCorpus(MaxLine(gen_call.specs), gen_rets[k].corpus)
        /\ gen_call = TestCall =>
              /\ gen_rets[k].ok
              /\ InCorpus(<< "1", SP, "1", LF >>, gen_rets[k].corpus)
              /\ InCorpus(<< "9", SP, "9", LF >>, gen_rets[k].corpus)

\* C15: a call with E = 3 on two fields whose bounds and midpoints differ.
C15_Witness ==
    /\ GenReturnedOk(1)
    /\ gen_call.pbt.enabled
    /\ EdgeBudget = 3
    /\ gen_call.specs = << [min |-> 1, max |-> 9], [min |-> -1, max |-> 1] >>
    /\ InCorpus(<< "9", SP, "1", LF >>, gen_rets[1].corpus)

\* C20: generate_inputs fails for every pbt in which a ratio lies outside
\* [0, 1], the ratios add up to more than 1 or max_cartesian_cases = 0,
\* whatever N and pbt.enabled are.
C20_InvalidPbtFails ==
    \A k \in 1..Len(gen_rets) : ~ValidPbt => ~gen_rets[k].ok

\* C20, the part that holds: such a pbt is fatal when PBT is enabled and
\* N > 0, and only then does generate_inputs fail.
C20_InvalidPbtFailsWhenUsed ==
    \A k \in 1..Len(gen_rets) :
        ~gen_rets[k].ok <=>
            (~ValidPbt /\ gen_call.pbt.enabled /\ gen_call.cases > 0)

\* C20: an invalid pbt was accepted because PBT is disabled.
C20_AcceptedWhenDisabled ==
    /\ GenReturnedOk(1)
    /\ ~ValidPbt
    /\ ~gen_call.pbt.enabled
    /\ gen_call.cases > 0

\* C20: an invalid pbt was accepted because there is no case to generate.
C20_AcceptedWhenNoCases ==
    /\ GenReturnedOk(1)
    /\ ~ValidPbt
    /\ gen_call.pbt.enabled
    /\ gen_call.cases = 0

\* ------------------------------------------------ claims on the normalizer

HasCr(s) == \E n \in 1..Len(s) : s[n] = CR

\* C16: normalize_output is idempotent: for every string and each of the four
\* settings, normalizing the normalized string changes nothing.
C16_NormalizeIdempotent ==
    Len(norm_rets) = 2 => norm_rets[2] = norm_rets[1]

\* C16, the part that holds: it is idempotent when trim_trailing_ws is set,
\* and on every string without a carriage return.
C16_IdempotentWhenTrimming ==
    (/\ Len(norm_rets) = 2
     /\ norm_call.normalize.trim_trailing_ws \/ ~HasCr(norm_call.output))
        => norm_rets[2] = norm_rets[1]

\* C16: a second normalization changed the string: the first removed the
\* line feed of a "\r\r\n" and left a new "\r\n".
C16_SecondPassChanges ==
    /\ Len(norm_rets) = 2
    /\ norm_call.output = << CR, CR, LF, "a" >>
    /\ ~norm_call.normalize.trim_trailing_ws
    /\ norm_rets[1] = << CR, LF, "a" >>
    /\ norm_rets[2] = << LF, "a" >>

\* C16: a string with trailing blanks, "\r\n" and final newlines was
\* normalized twice to the same string.
C16_SecondPassKeeps ==
    /\ Len(norm_rets) = 2
    /\ norm_call.output = << "a", SP, CR, LF >>
    /\ norm_call.normalize.trim_trailing_ws
    /\ norm_call.normalize.ignore_final_newline
    /\ norm_rets[1] = << "a" >>
    /\ norm_rets[2] = << "a" >>

\* ------------------------------------------------- claims on parse_bounds

\* The interval the InputSpec's min and max prime: (min or -100, max or 100).
PrimedInterval ==
    [min |-> IF pb_call.min = << >> THEN -100 ELSE pb_call.min[1],
     max |-> IF pb_call.max = << >> THEN 100 ELSE pb_call.max[1]]

\* The tokens of the k-th call: those of the range, then the extra one.
TokensOfCall(k) ==
    IF k = 1 THEN pb_call.tokens ELSE Append(pb_call.tokens, pb_call.extra)

HasRange(k) == k = 2 \/ pb_call.range # << >>

AnyBad(tokens) == \E n \in 1..Len(tokens) : tokens[n].kind = "bad"

\* The reference fold, left to right over the tokens that are `op value`, on
\* the integers: >= v: lo = max(lo, v); > v: lo = max(lo, v + 1);
\* <= v: hi = min(hi, v); < v: hi = min(hi, v - 1); == v: lo = hi = v.
RECURSIVE ReferenceFold(_, _, _)
ReferenceFold(tokens, n, b) ==
    IF n > Len(tokens) THEN b
    ELSE LET t == tokens[n]
             lo == IF b.min >= t.value THEN b.min ELSE t.value
             lo1 == IF b.min >= t.value + 1 THEN b.min ELSE t.value + 1
             hi == IF b.max <= t.value THEN b.max ELSE t.value
             hi1 == IF b.max <= t.value - 1 THEN b.max ELSE t.value - 1
             next ==
                 IF t.kind # "good" THEN b
                 ELSE IF t.op = << ">", "=" >> THEN [b EXCEPT !.min = lo]
                 ELSE IF t.op = << ">" >> THEN [b EXCEPT !.min = lo1]
                 ELSE IF t.op = << "<", "=" >> THEN [b EXCEPT !.max = hi]
                 ELSE IF t.op = << "<" >> THEN [b EXCEPT !.max = hi1]
                 ELSE [min |-> t.value, max |-> t.value]
         IN  ReferenceFold(tokens, n + 1, next)

\* The result the reference gives for the k-th call: an error for a token
\* outside the grammar or for lo > hi at the end, else (lo, hi).
Reference(k) ==
    LET tokens == IF HasRange(k) THEN TokensOfCall(k) ELSE << >>
        b == ReferenceFold(tokens, 1, PrimedInterval)
    IN  IF AnyBad(tokens) THEN [kind |-> "err", why |-> "unsupported token"]
        ELSE IF b.min > b.max THEN [kind |-> "err", why |-> "invalid bounds"]
        ELSE [kind |-> "ok", min |-> b.min, max |-> b.max]

\* Some integer of the primed interval satisfies every token.
Satisfies(x, t) ==
    IF t.kind # "good" THEN TRUE
    ELSE IF t.op = << ">", "=" >> THEN x >= t.value
    ELSE IF t.op = << ">" >> THEN x > t.value
    ELSE IF t.op = << "<", "=" >> THEN x <= t.value
    ELSE IF t.op = << "<" >> THEN x < t.value
    ELSE x = t.value

Satisfiable(tokens) ==
    \E x \in PrimedInterval.min..PrimedInterval.max :
        \A n \in 1..Len(tokens) : Satisfies(x, tokens[n])

\* A token whose v + 1 or v - 1 is outside the integer range is among them.
AnyOverflow(tokens) ==
    \E n \in 1..Len(tokens) :
        /\ tokens[n].kind = "good"
        /\ \/ tokens[n].op = << ">" >> /\ tokens[n].value = INT_MAX
           \/ tokens[n].op = << "<" >> /\ tokens[n].value = INT_MIN

AnyEquals(tokens) ==
    \E n \in 1..Len(tokens) :
        tokens[n].kind = "good" /\ tokens[n].op = << "=", "=" >>

\* The second result is an interval inside the first and inside the primed one.
Narrower ==
    /\ pb_rets[1].kind = "ok"
    /\ pb_rets[1].min <= pb_rets[2].min
    /\ pb_rets[2].max <= pb_rets[1].max
    /\ PrimedInterval.min <= pb_rets[2].min
    /\ pb_rets[2].max <= PrimedInterval.max

\* C17: parse_bounds is monotone in the range: appending a well-formed token
\* makes it fail or yields an interval contained in the one obtained without
\* the token and in the one primed by min/max; and a range whose tokens are
\* jointly unsatisfiable fails.
C17_TighterRangeNeverWidens ==
    /\ (Len(pb_rets) = 2 /\ pb_rets[2].kind = "ok") => Narrower
    /\ \A k \in 1..Len(pb_rets) :
          (HasRange(k) /\ ~Satisfiable(TokensOfCall(k)))
              => pb_rets[k].kind # "ok"

\* C17, the part that holds: the same for ranges without an `==` token and
\* without a token whose v + 1 or v - 1 overflows.
C17_MonotoneWithoutEquals ==
    \A k \in 1..Len(pb_rets) :
        (~AnyEquals(TokensOfCall(k)) /\ ~AnyOverflow(TokensOfCall(k))) =>
            /\ (k = 2 /\ pb_rets[2].kind = "ok") => Narrower
            /\ (HasRange(k) /\ ~Satisfiable(TokensOfCall(k)))
                  => pb_rets[k].kind # "ok"

\* C17: min = 5, max = 10 and the range "==3" gave (3, 3).
C17_EqualsLeavesPrimedInterval ==
    /\ Len(pb_rets) = 1
    /\ pb_call.min = << 5 >>
    /\ pb_call.max = << 10 >>
    /\ pb_call.range = << << "=", "=", "3" >> >>
    /\ pb_rets[1] = [kind |-> "ok", min |-> 3, max |-> 3]

\* C17: a token was appended and the interval became strictly smaller.
C17_Narrowed ==
    /\ Len(pb_rets) = 2
    /\ pb_rets[2].kind = "ok"
    /\ Narrower
    /\ pb_rets[1].min < pb_rets[2].min

\* C18: parse_bounds equals the reference left-to-right fold started from
\* (min or -100, max or 100); so min = 5, max = 10 and "> 0" give (5, 10), and
\* ">= 1, <= 9" without min and max gives (1, 9).
C18_EqualsReferenceFold ==
    \A k \in 1..Len(pb_rets) :
        /\ pb_rets[k] = Reference(k)
        /\ (/\ k = 1
            /\ pb_call.min = << 5 >>
            /\ pb_call.max = << 10 >>
            /\ pb_call.range = << << ">", SP, "0" >> >>)
              => pb_rets[k] = [kind |-> "ok", min |-> 5, max |-> 10]
        /\ (/\ k = 1
            /\ pb_call.min = << >>
            /\ pb_call.max = << >>
            /\ pb_call.range
                 = << << ">", "=", SP, "1", ",", SP, "<", "=", SP, "9" >> >>)
              => pb_rets[k] = [kind |-> "ok", min |-> 1, max |-> 9]

\* C18, the part that holds: parse_bounds equals the reference fold on every
\* range without a token whose v + 1 or v - 1 overflows, the two examples
\* included.
C18_EqualsFoldWithoutOverflow ==
    \A k \in 1..Len(pb_rets) :
        /\ ~AnyOverflow(TokensOfCall(k)) => pb_rets[k] = Reference(k)
        /\ (/\ k = 1
            /\ pb_call.min = << 5 >>
            /\ pb_call.max = << 10 >>
            /\ pb_call.range = << << ">", SP, "0" >> >>)
              => pb_rets[k] = [kind |-> "ok", min |-> 5, max |-> 10]
        /\ (/\ k = 1
            /\ pb_call.min = << >>
            /\ pb_call.max = << >>
            /\ pb_call.range
                 = << << ">", "=", SP, "1", ",", SP, "<", "=", SP, "9" >> >>)
              => pb_rets[k] = [kind |-> "ok", min |-> 1, max |-> 9]

\* C18: the range ">127" (v = i64::MAX in the model's width) was accepted by
\* a build without overflow checks, with the default interval as the result.
C18_WrappedTokenIgnored ==
    /\ Len(pb_rets) = 1
    /\ ~pb_call.overflow_checks
    /\ pb_call.min = << >>
    /\ pb_call.max = << >>
    /\ pb_call.range = << << ">" >> \o to_string(INT_MAX) >>
    /\ pb_rets[1] = [kind |-> "ok", min |-> -100, max |-> 100]

\* C18: the same range made a build with overflow checks panic.
C18_OverflowPanics ==
    /\ Len(pb_rets) = 1
    /\ pb_call.overflow_checks
    /\ pb_call.range = << << ">" >> \o to_string(INT_MAX) >>
    /\ pb_rets[1] = [kind |-> "panic"]

\* C18: the call of tests::parse_range_tokens returned (1, 9).
C18_TestRangeParsed ==
    /\ Len(pb_rets) = 1
    /\ pb_call.range
         = << << ">", "=", SP, "1", ",", SP, "<", "=", SP, "9" >> >>
    /\ pb_rets[1] = [kind |-> "ok", min |-> 1, max |-> 9]

\* lo > hi after the reference fold over the tokens of the k-th call.
EmptyAtEnd(k) ==
    LET b == ReferenceFold(IF HasRange(k) THEN TokensOfCall(k) ELSE << >>, 1,
                           PrimedInterval)
    IN  b.min > b.max

\* The range of the call is "<-1,==3": empty after the first token when min
\* is 5, then set by the second.
EmptyThenEquals ==
    /\ pb_call.min = << 5 >>
    /\ pb_call.max = << 10 >>
    /\ pb_call.range = << << "<", "-", "1", ",", "=", "=", "3" >> >>

\* C19: parse_bounds returns an error if and only if some non-empty token of
\* the range is not `op value` or lo > hi after all tokens were applied; an
\* Ok((lo, hi)) has lo <= hi; the check is made once, after the last token,
\* so an empty interval in between followed by `== v` succeeds.
C19_ErrorIffBadTokenOrEmpty ==
    \A k \in 1..Len(pb_rets) :
        /\ pb_rets[k].kind = "err" <=>
              (HasRange(k) /\ AnyBad(TokensOfCall(k))) \/ EmptyAtEnd(k)
        /\ pb_rets[k].kind = "ok" => pb_rets[k].min <= pb_rets[k].max
        /\ (k = 1 /\ EmptyThenEquals) => pb_rets[k].kind = "ok"

\* C19, the part that holds: the same on every range without a token whose
\* v + 1 or v - 1 overflows; and every Ok((lo, hi)) has lo <= hi.
C19_ErrorIffWithoutOverflow ==
    \A k \in 1..Len(pb_rets) :
        /\ ~AnyOverflow(TokensOfCall(k)) =>
              (pb_rets[k].kind = "err" <=>
                  (HasRange(k) /\ AnyBad(TokensOfCall(k))) \/ EmptyAtEnd(k))
        /\ pb_rets[k].kind = "ok" => pb_rets[k].min <= pb_rets[k].max
        /\ (k = 1 /\ EmptyThenEquals) => pb_rets[k].kind = "ok"

\* C19: the range "<-128" (v = i64::MIN in the model's width) with max = 0
\* was accepted by a build without overflow checks.
C19_EmptyRangeAccepted ==
    /\ Len(pb_rets) = 1
    /\ ~pb_call.overflow_checks
    /\ pb_call.max = << 0 >>
    /\ pb_call.range = << << "<" >> \o to_string(INT_MIN) >>
    /\ pb_rets[1] = [kind |-> "ok", min |-> -100, max |-> 0]

\* C19: an empty interval in between was followed by `== v` and the call
\* succeeded.
C19_EmptyThenEqualsSucceeds ==
    /\ Len(pb_rets) = 1
    /\ EmptyThenEquals
    /\ pb_rets[1] = [kind |-> "ok", min |-> 3, max |-> 3]

\* C19: a token outside the grammar was fatal.
C19_BadTokenFails ==
    /\ Len(pb_rets) = 1
    /\ pb_call.range = << << "=", "=", "3", ",", "=", "1" >> >>
    /\ pb_rets[1] = [kind |-> "err", why |-> "unsupported token"]

\* The failures a task holds for candidate j.
OfCandidate(fs, j) == SelectSeq(fs, LAMBDA f : f.candidate_index = j)

\* Candidate j was run on case i.
WasRun(i, j) == \E n \in 1 .. Len(runs[i]) : runs[i][n] = j

\* The class of a candidate's run, tested in the order runner error, timeout,
\* exit status, output.
ClassOf(i, j) ==
    LET got == programs.candidate[i][j]
        origin == programs.origin[i]
    IN  IF ~got.ok THEN "candidate runner error"
        ELSE IF got.timed_out THEN "candidate timed out"
        ELSE IF ~got.success THEN "candidate exited"
        ELSE IF normalize_output(got.stdout, config.normalize)
                    # normalize_output(origin.stdout, config.normalize)
             THEN "output mismatch"
        ELSE "pass"

\* C23: every (case, candidate) pair that was run has exactly one class, the
\* first that applies of runner error, timeout, non-zero exit and output
\* mismatch, and is a pass otherwise; a pass leaves no failure, every other
\* class exactly one failure with that reason; a pair that was not run
\* leaves none.
C23_OneClassPerPair ==
    \A i \in Cases : \A j \in Candidates :
        LET mine == OfCandidate(task_failures[i], j)
            got == programs.candidate[i][j]
        IN  /\ Len(mine) <= 1
            /\ ~WasRun(i, j) => mine = << >>
            /\ WasRun(i, j) =>
                  /\ ClassOf(i, j) = "pass" <=>
                        /\ got.ok /\ ~got.timed_out /\ got.success
                        /\ normalize_output(got.stdout, config.normalize)
                              = normalize_output(programs.origin[i].stdout,
                                                 config.normalize)
                  /\ IF ClassOf(i, j) = "pass" THEN mine = << >>
                     ELSE mine = << Failure(i, j, candidate_name(j), ClassOf(i, j)) >>

\* C23 witness: a candidate that timed out and did not exit successfully was
\* classified as timed out, another whose raw output differs from the
\* origin's passed, and a third pair failed by its output.
C23_Witness ==
    /\ Reported
    /\ \E i \in Cases, j \in Candidates :
          /\ WasRun(i, j)
          /\ programs.candidate[i][j].ok
          /\ programs.candidate[i][j].timed_out
          /\ ~programs.candidate[i][j].success
    /\ \E i \in Cases, j \in Candidates :
          /\ WasRun(i, j)
          /\ ClassOf(i, j) = "pass"
          /\ programs.candidate[i][j].stdout # programs.origin[i].stdout
    /\ \E i \in Cases, j \in Candidates :
          WasRun(i, j) /\ ClassOf(i, j) = "output mismatch"

\* The candidates run on case i, in the order of their runs.
CandidateRuns(i) == SelectSeq(runs[i], LAMBDA r : r # None)

\* The candidates the task of case i is past: all of them once it has
\* returned, those below its loop index while it is in the loop.
Past(i) ==
    IF pc[i] = "done" THEN Candidates
    ELSE { j \in Candidates : j < candidate_idx[i] }

\* C24: in a case whose origin run succeeded the origin is run first, the
\* candidates are run one after the other in ascending index order, and a
\* candidate the task is past was either run or skipped with its own flag
\* set; without stop_on_first_fail every candidate is run, whatever the
\* outcomes of the candidates before it.
C24_CandidatesInOrder ==
    \A i \in Cases :
        /\ runs[i] # << >> => runs[i][1] = None
        /\ \A a, b \in 1 .. Len(runs[i]) :
              a < b => /\ runs[i][b] # None
                       /\ a > 1 => runs[i][a] < runs[i][b]
        /\ CandidateRuns(i) # << >> => OriginSucceeds(i)
        /\ (OriginSucceeds(i) /\ pc[i] # "pending") =>
              \A j \in Past(i) :
                  \/ WasRun(i, j)
                  \/ config.stop_on_first_fail /\ failed_candidates[j]

\* C24 witness: with stop_on_first_fail the first candidate failed on a
\* case, the second candidate was run on it after that, and on another case
\* the first candidate was skipped and the second was run.
C24_Witness ==
    /\ Reported
    /\ config.stop_on_first_fail
    /\ \E i, h \in Cases :
          /\ runs[i] = << None, 0, 1 >>
          /\ ClassOf(i, 0) # "pass"
          /\ runs[h] = << None, 1 >>

\* What the task of case i holds changes as follows in one step: nothing;
\* pending, the origin is run, and the case goes on to the candidates
\* (origin ok) or ends with one failure (origin bad, or a runner error); at
\* the loop head the candidate is skipped with its flag set, or is about to
\* be run; in the loop body the candidate is run and passes or leaves one
\* failure; a case that is complete stays so.
CaseTransition(i) ==
    LET j == candidate_idx[i]
        last == j + 1 = config.candidates
    IN  \/ /\ pc'[i] = pc[i] /\ candidate_idx'[i] = j
           /\ runs'[i] = runs[i] /\ task_failures'[i] = task_failures[i]
        \/ /\ pc[i] = "pending"
           /\ runs'[i] = << None >>
           /\ candidate_idx'[i] = 0
           /\ IF OriginSucceeds(i)
              THEN pc'[i] = "loop" /\ task_failures'[i] = << >>
              ELSE /\ pc'[i] = "done"
                   /\ Len(task_failures'[i]) = 1
                   /\ task_failures'[i][1].candidate_index = None
        \/ /\ pc[i] = "loop"
           /\ runs'[i] = runs[i] /\ task_failures'[i] = task_failures[i]
           /\ \/ pc'[i] = "run" /\ candidate_idx'[i] = j
              \/ /\ config.stop_on_first_fail /\ failed_candidates[j]
                 /\ candidate_idx'[i] = j + 1
                 /\ pc'[i] = IF last THEN "done" ELSE "loop"
        \/ /\ pc[i] = "run"
           /\ runs'[i] = Append(runs[i], j)
           /\ candidate_idx'[i] = j + 1
           /\ pc'[i] = IF last THEN "done" ELSE "loop"
           /\ IF ClassOf(i, j) = "pass"
              THEN task_failures'[i] = task_failures[i]
              ELSE /\ Len(task_failures'[i]) = Len(task_failures[i]) + 1
                   /\ task_failures'[i][Len(task_failures'[i])].candidate_index = j

\* The origin was run once on every case that has left pending, and on no other.
OriginOnce ==
    \A i \in Cases :
        Len(SelectSeq(runs[i], LAMBDA r : r = None))
            = IF pc[i] = "pending" THEN 0 ELSE 1

AllComplete == \A i \in Cases : pc[i] = "done"

\* C25: every case follows pending -> origin run -> origin ok or origin bad;
\* origin bad ends the case, origin ok leads through the candidates, each run
\* (pass or fail) or skipped; the origin is run exactly once per case, also
\* when every candidate's flag is set; as every program run returns, every
\* case is complete in the end.
C25_CaseStateMachine ==
    /\ [][\A i \in Cases : CaseTransition(i)]_vars
    /\ []OriginOnce
    /\ <>AllComplete

\* C25 witness: a case on which every candidate was skipped, their flags
\* set by another case, is complete and its origin was run.
C25_Witness ==
    /\ AllComplete
    /\ config.stop_on_first_fail
    /\ config.candidates = 2
    /\ \E i \in Cases : OriginSucceeds(i) /\ runs[i] = << None >>

\* The number of times a task stored into candidate j's flag: one store
\* behind every failure pushed for j, when the flags exist.
Stores(j) ==
    IF config.stop_on_first_fail
    THEN SeqSum([n \in 1 .. config.cases |->
                    Len(OfCandidate(task_failures[n - 1], j))])
    ELSE 0

\* C26: with stop_on_first_fail the flag of a candidate that fails in a run
\* is written exactly once in that run, for every interleaving of the case
\* tasks; a flag is never written for a candidate that does not fail.
C26_FlagWrittenOnce ==
    config.stop_on_first_fail =>
        \A j \in Candidates :
            /\ Stores(j) <= 1
            /\ failed_candidates[j] <=> Stores(j) = 1

\* The part of C26 that holds: a flag is set exactly when it was written, it
\* is written only for a pair that was run and failed, it is written once
\* when one thread runs the cases, and never more often than there are
\* workers' tasks that loaded it before the first store: at most once per
\* case.
C26_FlagSetIffWritten ==
    \A j \in Candidates :
        /\ failed_candidates[j] <=> Stores(j) >= 1
        /\ Stores(j) <= config.cases
        /\ config.workers = 1 => Stores(j) <= 1
        /\ \A i \in Cases :
              Len(OfCandidate(task_failures[i], j)) = 1 =>
                  WasRun(i, j) /\ ClassOf(i, j) # "pass"

\* A flag that is set stays set, and a step writes the flag of at most one
\* candidate.
C26_FlagsOnlyRise ==
    [][/\ \A j \in Candidates : failed_candidates[j] => failed_candidates'[j]
       /\ Cardinality({ j \in Candidates : Stores(j)' # Stores(j) }) <= 1]_vars

\* Two tasks loaded the flag of a candidate before either stored it: the flag
\* was written twice.
C26_WrittenTwice ==
    /\ Reported
    /\ config.stop_on_first_fail
    /\ config.workers = 2
    /\ \E j \in Candidates : Stores(j) = 2

\* One thread: the candidate failed on the first case and was skipped on the
\* second, its flag written once.
C26_WrittenOnce ==
    /\ Reported
    /\ config.stop_on_first_fail
    /\ config.workers = 1
    /\ config.cases = 2
    /\ \E j \in Candidates :
          Stores(j) = 1 /\ WasRun(0, j) /\ ~WasRun(1, j) /\ OriginSucceeds(1)

\* run_command returned Ok with timed_out = true.
ReturnedTimedOut ==
    rpc = "returned" /\ r_result[1].ok /\ r_result[1].timed_out

\* C27: a result with timed_out = true is the result of a child that the
\* runner's kill terminated: its status is that of a killed process, never
\* one of an exit of its own.
C27_TimedOutImpliesKilled ==
    ReturnedTimedOut => child_status = "killed" /\ status = "killed"

\* The part of C27 that holds: timed_out is set only when wait_timeout found
\* the child running, kill is called before the child is reaped, and a child
\* reaped with a status of its own after a timeout is one that exits by
\* itself.
C27_TimedOutMeansExpired ==
    /\ timed_out => rpc \in {"kill", "wait", "join_stdout", "join_stderr", "returned"}
    /\ (timed_out /\ rpc # "kill") => child \in {"exited", "reaped"}
    /\ (timed_out /\ child_status \in {"success", "failure"}) => env.exits
    /\ (rpc = "returned" /\ r_result[1].ok /\ ~r_result[1].timed_out) =>
          child_status # "killed"

\* The child exited by itself between the expiry of wait_timeout and the
\* kill: run_command returned timed_out = true with the status of a
\* successful exit, its whole output read.
C27_TimedOutButExited ==
    /\ ReturnedTimedOut
    /\ child_status = "success"
    /\ r_result[1].success
    /\ env.stdout # << >>
    /\ r_result[1].stdout = Utf8Lossy(env.stdout)

\* The child was killed.
C27_TimedOutAndKilled ==
    ReturnedTimedOut /\ child_status = "killed" /\ ~r_result[1].success

Formatted(cases) == [n \in 1..Len(cases) |-> format_case(cases[n])]

IsPrefix(a, b) == Len(a) <= Len(b) /\ \A n \in 1..Len(a) : a[n] = b[n]

\* The tuple of cursor value c: field i (0-based) takes point (c + i) mod len.
PartitionTuple(specs, c) ==
    [n \in 1..Len(specs) |->
        LET points == partition_points(specs[n])
        IN  points[((c + (n - 1)) % Len(points)) + 1]]

\* The partition phase as a fold over the cursor values c, c + 1, .., guard:
\* a tuple that is not in the list yet is added, until `room` were added.
RECURSIVE PartitionFold(_, _, _, _, _)
PartitionFold(list, specs, room, c, guard) ==
    IF room <= 0 \/ c > guard THEN list
    ELSE LET tuple == PartitionTuple(specs, c)
         IN  IF \E n \in 1..Len(list) : list[n] = tuple
             THEN PartitionFold(list, specs, room, c + 1, guard)
             ELSE PartitionFold(Append(list, tuple), specs, room - 1, c + 1, guard)

\* The budgets and the edge tuples of the call.
EdgeCount == Budget(gen_call.cases, gen_call.pbt.edge_case_ratio)
PartitionCount == Budget(gen_call.cases, gen_call.pbt.partition_ratio)
EdgeTuples ==
    extend_edge_cases(<< >>, gen_call.specs, EdgeCount,
                      gen_call.pbt.max_cartesian_cases)

\* The seeded list when the partition phase adds P tuples of its own, and
\* when it fills the list up to P tuples in all.
OwnBudget ==
    PartitionFold(EdgeTuples, gen_call.specs, PartitionCount, 0, 4 * PartitionCount)
SharedBudget ==
    PartitionFold(EdgeTuples, gen_call.specs, PartitionCount - Len(EdgeTuples),
                  0, 4 * PartitionCount)

\* A call with PBT enabled and valid, and at least one case.
PbtCall == gen_call.pbt.enabled /\ ValidPbt /\ gen_call.cases > 0

\* C28: with PBT enabled the partition phase adds P = round(N *
\* partition_ratio) partition tuples of its own behind the edge tuples,
\* whenever that many new distinct partition tuples exist: the corpus starts
\* with the edge tuples followed by P partition tuples (cut at N).
C28_PartitionOwnBudget ==
    \A k \in 1..Len(gen_rets) :
        (PbtCall /\ Len(OwnBudget) = Len(EdgeTuples) + PartitionCount) =>
            /\ gen_rets[k].ok
            /\ IsPrefix(Formatted(Truncate(OwnBudget, gen_call.cases)),
                        gen_rets[k].corpus)

\* The part of C28 that holds: the partition phase fills the seeded list up
\* to P tuples in all, the edge tuples counted; it adds nothing when the
\* edge phase left P tuples or more, and what follows is the random cases.
C28_PartitionFillsUpToP ==
    \A k \in 1..Len(gen_rets) :
        PbtCall =>
            LET seeded == Truncate(SharedBudget, gen_call.cases)
                random == generate_random_cases(
                              gen_call.specs, gen_call.cases - Len(seeded),
                              gen_call.seed).out
            IN  /\ gen_rets[k].ok
                /\ gen_rets[k].corpus = Formatted(seeded \o random)
                /\ Len(SharedBudget) <= Max(Len(EdgeTuples), PartitionCount)
                /\ PartitionCount <= Len(EdgeTuples) => SharedBudget = EdgeTuples

\* The default ratios 0.2 / 0.2 on the test's call: P = 6, six edge tuples,
\* four new partition tuples exist, and the seventh case of the corpus is a
\* random one.
C28_NoPartitionTupleByDefault ==
    /\ gen_call = TestCall
    /\ Len(gen_rets) >= 1
    /\ gen_rets[1].ok
    /\ PartitionCount = 6
    /\ Len(EdgeTuples) = 6
    /\ Len(OwnBudget) = 10
    /\ SharedBudget = EdgeTuples
    /\ gen_rets[1].corpus[7] # format_case(OwnBudget[7])

\* Two cases of four for each phase: two edge tuples, and no partition tuple
\* although two new ones exist.
C28_NoPartitionTupleOfTwo ==
    /\ PbtCall
    /\ Len(gen_rets) >= 1
    /\ gen_call.cases = 4
    /\ PartitionCount = 2
    /\ Len(EdgeTuples) = 2
    /\ Len(OwnBudget) = 4
    /\ ~InCorpus(format_case(OwnBudget[3]), gen_rets[1].corpus)

\* The partition phase added tuples: P exceeds the number of edge tuples.
C28_PartitionTuplesAdded ==
    /\ PbtCall
    /\ Len(gen_rets) >= 1
    /\ Len(EdgeTuples) >= 1
    /\ Len(SharedBudget) > Len(EdgeTuples)
    /\ Len(SharedBudget) <= gen_call.cases

NoDuplicate(list) ==
    \A a, b \in 1..Len(list) : a # b => list[a] # list[b]

\* {lo, lo + 1, hi - 1, hi, 0, 1, -1} within [lo, hi].
EdgeSet(spec) ==
    { v \in { spec.min, spec.min + 1, spec.max - 1, spec.max, 0, 1, -1 } :
        spec.min <= v /\ v <= spec.max }

\* The tuples of the edge recipes, as a set: the five fixed tuples, the
\* all-midpoint tuple with one position replaced by an edge value, and the
\* Cartesian product of the edge values when it is small enough.
RecipeTuples(specs, max_cartesian_cases) ==
    LET fields == 1..Len(specs)
        mids == [n \in fields |-> midpoint(specs[n].min, specs[n].max)]
        product ==
            { t \in [fields -> UNION { EdgeSet(specs[n]) : n \in fields }] :
                \A n \in fields : t[n] \in EdgeSet(specs[n]) }
    IN  { mids,
          [n \in fields |-> specs[n].min],
          [n \in fields |-> specs[n].max],
          [n \in fields |-> IF n % 2 = 1 THEN specs[n].min ELSE specs[n].max],
          [n \in fields |-> IF n % 2 = 1 THEN specs[n].max ELSE specs[n].min] }
        \cup UNION { { [mids EXCEPT ![n] = e] : e \in EdgeSet(specs[n]) } :
                        n \in fields }
        \cup (IF Cardinality(product) <= max_cartesian_cases THEN product ELSE {})

\* C29: with PBT enabled the seeded tuples are pairwise distinct and are the
\* first cases of the corpus; a recipe tuple that is present already is not
\* inserted and takes nothing of the budget, so the edge phase leaves as
\* many tuples as there are distinct recipe tuples, or E if there are more.
C29_SeededTuplesDistinct ==
    \A k \in 1..Len(gen_rets) :
        PbtCall =>
            LET seeded == SeededCases(gen_call.specs, gen_call.cases, gen_call.pbt)
                recipes == RecipeTuples(gen_call.specs,
                                        gen_call.pbt.max_cartesian_cases)
            IN  /\ NoDuplicate(seeded)
                /\ IsPrefix(EdgeTuples, seeded)
                /\ Len(EdgeTuples) = Min(EdgeCount, Cardinality(recipes))
                /\ \A n \in 1..Len(EdgeTuples) : EdgeTuples[n] \in recipes
                /\ gen_rets[k].ok
                /\ IsPrefix(Formatted(Truncate(seeded, gen_call.cases)),
                            gen_rets[k].corpus)

\* C29 witness: the recipes gave fewer distinct tuples than the budget E
\* allows (equal tuples were dropped), and the random cases that fill the
\* corpus repeat a case.
C29_Witness ==
    /\ PbtCall
    /\ Len(gen_rets) >= 1
    /\ EdgeTuples # << >>
    /\ Len(EdgeTuples) < EdgeCount
    /\ Len(SeededCases(gen_call.specs, gen_call.cases, gen_call.pbt)) >= 2
    /\ ~NoDuplicate(gen_rets[1].corpus)

\* The tuples of the Cartesian product of the fields' edge values from field
\* n on, in lexicographic order.
RECURSIVE LexProduct(_, _)
LexProduct(specs, n) ==
    IF n > Len(specs) THEN << << >> >>
    ELSE LET edges == Ascending(EdgeSet(specs[n]))
             rest == LexProduct(specs, n + 1)
         IN  Flatten([e \in 1..Len(edges) |->
                        [r \in 1..Len(rest) |-> << edges[e] >> \o rest[r]]])

\* The recipes of the edge phase in their order, equal tuples included.
RecipeList(specs, max_cartesian_cases) ==
    LET fields == 1..Len(specs)
        mids == [n \in fields |-> midpoint(specs[n].min, specs[n].max)]
        per_field ==
            Flatten([n \in fields |->
                LET edges == Ascending(EdgeSet(specs[n]))
                IN  [e \in 1..Len(edges) |-> [mids EXCEPT ![n] = edges[e]]]])
        product == LexProduct(specs, 1)
    IN  << mids,
           [n \in fields |-> specs[n].min],
           [n \in fields |-> specs[n].max],
           [n \in fields |-> IF n % 2 = 1 THEN specs[n].min ELSE specs[n].max],
           [n \in fields |-> IF n % 2 = 1 THEN specs[n].max ELSE specs[n].min] >>
        \o per_field
        \o (IF Len(product) <= max_cartesian_cases THEN product ELSE << >>)

\* The first occurrences of a list's tuples, in the list's order.
RECURSIVE FirstOccurrences(_, _)
FirstOccurrences(list, seen) ==
    IF list = << >> THEN seen
    ELSE IF \E n \in 1..Len(seen) : seen[n] = Head(list)
         THEN FirstOccurrences(Tail(list), seen)
         ELSE FirstOccurrences(Tail(list), Append(seen, Head(list)))

Take(list, n) == SubSeq(list, 1, Min(n, Len(list)))

\* The first E distinct recipe tuples.
EdgeOrder ==
    Take(FirstOccurrences(RecipeList(gen_call.specs,
                                     gen_call.pbt.max_cartesian_cases), << >>),
         EdgeCount)

\* The seeded list: the edge tuples, then new partition tuples in cursor
\* order while the list is shorter than P.
SeededOrder ==
    PartitionFold(EdgeOrder, gen_call.specs, PartitionCount - Len(EdgeOrder),
                  0, 4 * PartitionCount)

\* C30: with PBT enabled the corpus is the first E distinct edge tuples in
\* recipe order (midpoints, minima, maxima, the two alternations, the
\* per-field replacements by field and ascending edge value, then the
\* Cartesian product in lexicographic order if it has at most
\* max_cartesian_cases tuples), then the partition tuples in cursor order,
\* then the random cases, the seeded tuples cut to the first N; with PBT
\* disabled all N cases are random.
C30_CorpusOrder ==
    \A k \in 1..Len(gen_rets) :
        LET N == gen_call.cases
            seeded == IF gen_call.pbt.enabled THEN Take(SeededOrder, N) ELSE << >>
            random == generate_random_cases(gen_call.specs, N - Len(seeded),
                                            gen_call.seed).out
        IN  (N > 0 /\ (gen_call.pbt.enabled => ValidPbt)) =>
                /\ gen_rets[k].ok
                /\ gen_call.pbt.enabled => Len(EdgeOrder) <= EdgeCount
                /\ Len(random) = N - Len(seeded)
                /\ gen_rets[k].corpus = Formatted(seeded \o random)

\* C30 witness: a corpus of edge tuples, a partition tuple and random cases.
C30_Witness ==
    /\ PbtCall
    /\ Len(gen_rets) >= 1
    /\ Len(EdgeOrder) >= 1
    /\ Len(SeededOrder) > Len(EdgeOrder)
    /\ Len(SeededOrder) < gen_call.cases

\* The Cartesian product gave the last three edge tuples, (1, 2), (1, 8) and
\* (2, 1), behind the thirteen of the other recipes.
C30_CartesianTuples ==
    /\ gen_call \in CartesianCalls
    /\ gen_call.pbt.max_cartesian_cases = 128
    /\ Len(gen_rets) >= 1
    /\ gen_rets[1].ok
    /\ SubSeq(gen_rets[1].corpus, 14, 16)
          = Formatted(<< << 1, 2 >>, << 1, 8 >>, << 2, 1 >> >>)

\* The Cartesian product is larger than max_cartesian_cases: thirteen edge
\* tuples, then random cases.
C30_CartesianSkipped ==
    /\ gen_call \in CartesianCalls
    /\ gen_call.pbt.max_cartesian_cases = 2
    /\ Len(gen_rets) >= 1
    /\ gen_rets[1].ok
    /\ Len(EdgeOrder) = 13
    /\ Len(gen_rets[1].corpus) = 16

\* PBT is disabled and the corpus is N random cases.
C30_AllRandom ==
    /\ ~gen_call.pbt.enabled
    /\ gen_call.cases = MaxCorpus
    /\ Len(gen_rets) >= 1
    /\ gen_rets[1].ok
    /\ Len(gen_rets[1].corpus) = MaxCorpus

\* run_program has returned (or has spawned its process).
ProgramCalled == prog_rets # << >>

\* Every mount string of the call is host:container[:mode] with a host and a
\* container that are not blank.
MountsParse ==
    \A n \in 1..Len(prog_call.program.mounts) :
        prog_call.program.mounts[n]
            \in { << "h", ":", "/", "c" >>,
                  << "/", "h", ":", "/", "c", ":", "r", "o" >>,
                  << " ", "g", " ", ":", " ", "/", "d", " " >>,
                  << "h", ":", "/", "d", ":" >> }

LocalMode == prog_call.program.image = << >>

\* C21: run_program with an empty cmd returns an error and spawns no
\* process, in local mode and in container mode.
C21_EmptyCmdIsError ==
    (ProgramCalled /\ prog_call.program.cmd = << >>) =>
        prog_rets[1].err /\ prog_rets[1].spawned = << >>

\* The part of C21 that holds: in local mode the empty cmd is an error and
\* nothing is spawned; no call spawns an empty argv; in container mode the
\* empty cmd is an error only when a mount does not parse.
C21_EmptyCmdIsErrorLocally ==
    ProgramCalled =>
        /\ (LocalMode /\ prog_call.program.cmd = << >>) =>
              prog_rets[1].err /\ prog_rets[1].spawned = << >>
        /\ prog_rets[1].err <=> prog_rets[1].spawned = << >>
        /\ ~prog_rets[1].err => prog_rets[1].spawned[1].argv # << >>
        /\ (~LocalMode /\ prog_call.program.cmd = << >>) =>
              (prog_rets[1].err <=> ~MountsParse)

\* Container mode, no cmd: docker is spawned with the image as its last word.
C21_DockerSpawnedWithoutCmd ==
    /\ ProgramCalled
    /\ ~LocalMode
    /\ prog_call.program.cmd = << >>
    /\ ~prog_rets[1].err
    /\ LET argv == prog_rets[1].spawned[1].argv
       IN  argv[1] = DOCKER_PREFIX[1] /\ argv[Len(argv)] = IMAGE

\* Local mode, no cmd: an error.
C21_LocalEmptyCmdFails ==
    /\ ProgramCalled
    /\ LocalMode
    /\ prog_call.program.cmd = << >>
    /\ MountsParse
    /\ prog_rets[1] = ProgramErr

\* What the mount strings that parse mean: host, container and mode.
MountMeaning(mount) ==
    CASE mount = << "h", ":", "/", "c" >> ->
            [host |-> << "h" >>, container |-> << "/", "c" >>, mode |-> << >>]
      [] mount = << "/", "h", ":", "/", "c", ":", "r", "o" >> ->
            [host |-> << "/", "h" >>, container |-> << "/", "c" >>,
             mode |-> << << "r", "o" >> >>]
      [] mount = << " ", "g", " ", ":", " ", "/", "d", " " >> ->
            [host |-> << "g" >>, container |-> << "/", "d" >>, mode |-> << >>]
      [] mount = << "h", ":", "/", "d", ":" >> ->
            [host |-> << "h" >>, container |-> << "/", "d" >>, mode |-> << >>]

\* The host path a mount resolves to: relative to the configuration's
\* directory unless absolute, canonicalized when the file system can.
HostPath(host) ==
    LET joined == IF host[1] = "/" THEN host ELSE << "/", "w", "/" >> \o host
    IN  IF prog_call.fs = "link" THEN << "/", "r" >> \o joined ELSE joined

\* host:container[:mode]
VolumeText(mount) ==
    LET meaning == MountMeaning(mount)
    IN  HostPath(meaning.host) \o << ":" >> \o meaning.container
            \o (IF meaning.mode = << >> THEN << >>
                ELSE << ":" >> \o meaning.mode[1])

\* C22: in local mode the argv that is executed is the program's argv with
\* every element that equals a mount's container token replaced by the
\* resolved host path of a mount with that token, every other element
\* unchanged, and the limits are applied; in container mode the argv ends
\* with the image and the program's argv unchanged, every mount is one pair
\* "-v", "host:container[:mode]" before the image, in the mounts' order, and
\* the limits are not applied to the spawned process.
C22_MountsByMode ==
    (ProgramCalled /\ ~prog_rets[1].err) =>
        LET cmd == prog_call.program.cmd
            mounts == prog_call.program.mounts
            argv == prog_rets[1].spawned[1].argv
            named(word) ==
                { n \in 1..Len(mounts) : MountMeaning(mounts[n]).container = word }
            head == Len(argv) - Len(cmd) - 1
        IN  /\ MountsParse
            /\ LocalMode =>
                  /\ prog_rets[1].spawned[1].setrlimit
                  /\ Len(argv) = Len(cmd)
                  /\ \A a \in 1..Len(cmd) :
                        IF named(cmd[a]) = {} THEN argv[a] = cmd[a]
                        ELSE \E n \in named(cmd[a]) :
                                argv[a] = HostPath(MountMeaning(mounts[n]).host)
            /\ ~LocalMode =>
                  /\ ~prog_rets[1].spawned[1].setrlimit
                  /\ head >= 2 * Len(mounts)
                  /\ argv[head + 1] = IMAGE
                  /\ SubSeq(argv, head + 2, Len(argv)) = cmd
                  /\ \A n \in 1..Len(mounts) :
                        LET at == head - 2 * (Len(mounts) - n) - 1
                        IN  /\ argv[at] = VOLUME_FLAG
                            /\ argv[at + 1] = VolumeText(mounts[n])
                  /\ Cardinality({ a \in 1..head : argv[a] = VOLUME_FLAG })
                        = Len(mounts)

\* C22 witness: the same program with a mount of /c to a relative host and a
\* cmd that names /c, run in local mode with the token replaced.
C22_Witness ==
    /\ ProgramCalled
    /\ LocalMode
    /\ prog_call.fs = "link"
    /\ prog_call.program.cmd = << << "p" >>, << "/", "c" >> >>
    /\ prog_call.program.mounts = << << "h", ":", "/", "c" >> >>
    /\ ~prog_rets[1].err
    /\ prog_rets[1].spawned[1].argv
          = << << "p" >>, << "/", "r", "/", "w", "/", "h" >> >>

\* In container mode the token stays and the mounts are volumes.
C22_ContainerKeepsArgv ==
    /\ ProgramCalled
    /\ ~LocalMode
    /\ prog_call.program.cmd = << << "p" >>, << "/", "c" >> >>
    /\ Len(prog_call.program.mounts) = 2
    /\ ~prog_rets[1].err
    /\ prog_call.limits.memory_mb # << >>
    /\ \E a \in 1..Len(prog_rets[1].spawned[1].argv) :
          prog_rets[1].spawned[1].argv[a]
              = << "/", "h", ":", "/", "c", ":", "r", "o" >>

\* The range of the wide type: twice the bits of the bounds' type (the
\* claim's 128-bit type is wider still).
WIDE_MIN == -(2 ^ (2 * INT_BITS - 1))
WIDE_MAX == 2 ^ (2 * INT_BITS - 1) - 1
InWide(v) == WIDE_MIN <= v /\ v <= WIDE_MAX

\* C31: for all bounds lo <= hi, the extreme ones included, the midpoint and
\* the quartiles lo + k * (hi - lo) / 4 are computed without overflow (the
\* difference, the product and the sum fit the wide type), the value
\* computed lies in [lo, hi], so narrowing it changes nothing, and every
\* partition point lies in [lo, hi].
C31_QuartilesInRange ==
    part_rets # << >> =>
        LET lo == part_call.min
            hi == part_call.max
        IN  /\ InWide(hi - lo) /\ InWide((hi - lo) * 3)
            /\ \A k \in 1..3 :
                  LET wide == interpolate128(lo, hi, k, 4)
                  IN  /\ InWide(wide)
                      /\ lo <= wide /\ wide <= hi
                      /\ interpolate(lo, hi, k, 4) = wide
            /\ midpoint(lo, hi) = interpolate128(lo, hi, 1, 2)
            /\ lo <= midpoint(lo, hi) /\ midpoint(lo, hi) <= hi
            /\ \A n \in 1..Len(part_rets[1]) :
                  lo <= part_rets[1][n] /\ part_rets[1][n] <= hi

\* C31 witness: the whole range, whose width does not fit the bounds' type.
C31_Witness ==
    /\ part_rets # << >>
    /\ part_call.min = INT_MIN
    /\ part_call.max = INT_MAX
    /\ part_call.max - part_call.min > INT_MAX
    /\ part_rets[1] = << INT_MIN, -65, -1, 0, 63, INT_MAX >>

\* C32: for every range token whose value fits the integer type, `> v` with
\* v = i64::MAX and `< v` with v = i64::MIN included, parse_bounds computes
\* v + 1 and v - 1 without overflow, wrap-around or panic (no call panics,
\* and a range with such a token is parsed as with exact arithmetic), and
\* every interval it returns has lo <= hi, both within the integer range.
C32_NoOverflowInBounds ==
    \A k \in 1..Len(pb_rets) :
        /\ pb_rets[k].kind # "panic"
        /\ (HasRange(k) /\ AnyOverflow(TokensOfCall(k)))
              => pb_rets[k] = Reference(k)
        /\ pb_rets[k].kind = "ok" =>
              /\ pb_rets[k].min <= pb_rets[k].max
              /\ INT_MIN <= pb_rets[k].min
              /\ pb_rets[k].max <= INT_MAX

\* C32, the part that holds: every interval returned has lo <= hi within the
\* integer range, and a range without `> i64::MAX` and `< i64::MIN` never
\* panics.
C32_IntervalsInRange ==
    \A k \in 1..Len(pb_rets) :
        /\ ~(HasRange(k) /\ AnyOverflow(TokensOfCall(k)))
              => pb_rets[k].kind # "panic"
        /\ pb_rets[k].kind = "ok" =>
              /\ pb_rets[k].min <= pb_rets[k].max
              /\ INT_MIN <= pb_rets[k].min
              /\ pb_rets[k].max <= INT_MAX

\* C32: `< v` with v = i64::MIN, appended to a range that parsed, made a
\* build with overflow checks panic on v - 1.
C32_MinMinusOnePanics ==
    /\ Len(pb_rets) = 2
    /\ pb_call.overflow_checks
    /\ pb_call.extra.op = << "<" >>
    /\ pb_call.extra.value = INT_MIN
    /\ pb_rets[1].kind = "ok"
    /\ pb_rets[2] = [kind |-> "panic"]

\* C32: `> v` with v = i64::MAX, appended to an empty range, wrapped to
\* i64::MIN in a build without overflow checks: the bound was not raised and
\* the default interval was returned, where no integer exceeds v.
C32_MaxPlusOneWraps ==
    /\ Len(pb_rets) = 2
    /\ ~pb_call.overflow_checks
    /\ pb_call.min = << >>
    /\ pb_call.max = << >>
    /\ pb_call.tokens = << >>
    /\ pb_call.extra.op = << ">" >>
    /\ pb_call.extra.value = INT_MAX
    /\ AsInt(pb_call.extra.value + 1) = INT_MIN
    /\ pb_rets[2] = [kind |-> "ok", min |-> -100, max |-> 100]
    /\ Reference(2) = [kind |-> "err", why |-> "invalid bounds"]

\* The failures case i yields when every candidate is run on it: what the
\* origin's failure leaves, or one failure per candidate with a non-pass
\* outcome, in candidate order.
RECURSIVE CandidateFailuresFrom(_, _)
CandidateFailuresFrom(i, j) ==
    IF j >= config.candidates THEN << >>
    ELSE (IF ReasonOf(i, j) = "pass" THEN << >>
          ELSE << Failure(i, j, candidate_name(j), ReasonOf(i, j)) >>)
             \o CandidateFailuresFrom(i, j + 1)

ExpectedOfCase(i) ==
    LET o == programs.origin[i]
    IN  IF ~o.ok THEN << Failure(i, None, "engine", "runner error") >>
        ELSE IF o.timed_out
             THEN << Failure(i, None, "origin", "origin timed out") >>
        ELSE IF ~o.success
             THEN << Failure(i, None, "origin", "origin exited") >>
        ELSE CandidateFailuresFrom(i, 0)

RECURSIVE ExpectedFrom(_)
ExpectedFrom(i) ==
    IF i >= config.cases THEN << >>
    ELSE ExpectedOfCase(i) \o ExpectedFrom(i + 1)

\* The candidates' failures and the origin/engine failures among them.
ExpectedOf(j) == SelectSeq(ExpectedFrom(0), LAMBDA f : f.candidate_index = j)
ExpectedInfra == SelectSeq(ExpectedFrom(0), LAMBDA f : f.candidate_index = None)

\* C33: without stop_on_first_fail and with deterministic programs, the list
\* of retained failures is a function of the programs alone, the same for
\* every worker count and every interleaving of the case tasks: one failure
\* for every (case, candidate) pair with a non-pass outcome and one
\* origin/engine failure for every case whose origin fails; and so are the
\* buckets, every verdict, every count n of FAIL(n) and the exit code.
C33_SameReportWhateverTheSchedule ==
    (Reported /\ ~config.stop_on_first_fail) =>
        /\ failures = ExpectedFrom(0)
        /\ infra_failures = ExpectedInfra
        /\ \A j \in Candidates :
              /\ candidate_failures[j] = ExpectedOf(j)
              /\ summary[j].verdict = "FAIL" <=> ExpectedOf(j) # << >>
              /\ summary[j].verdict = "FAIL" => summary[j].n = Len(ExpectedOf(j))
              /\ summary[j].verdict = "UNKNOWN" <=>
                    (ExpectedOf(j) = << >> /\ ExpectedInfra # << >>)
              /\ summary[j].verdict = "PASS" <=>
                    (ExpectedOf(j) = << >> /\ ExpectedInfra = << >>)
        /\ exit_code = IF ExpectedFrom(0) = << >> THEN 0 ELSE 1

\* C33 witness: two workers, the tasks' failures collected in the reverse
\* order of the cases, a candidate that failed on both cases and another
\* that failed on one.
C33_Witness ==
    /\ Reported
    /\ ~config.stop_on_first_fail
    /\ config.workers = 2
    /\ config.cases = 2
    /\ config.candidates = 2
    /\ Len(collected) = 3
    /\ collected[1].case_index = 1
    /\ collected[3].case_index = 0
    /\ summary[0] = [verdict |-> "FAIL", n |-> 2]
    /\ summary[1] = [verdict |-> "FAIL", n |-> 1]

\* C33 witness: the same with an origin that cannot be run on the first case.
C33_WitnessInfra ==
    /\ Reported
    /\ ~config.stop_on_first_fail
    /\ config.workers = 2
    /\ config.cases = 2
    /\ ~programs.origin[0].ok
    /\ collected # failures
    /\ Len(infra_failures) = 1
    /\ \E j \in Candidates : summary[j].verdict = "UNKNOWN"

\* A failure of candidate j has been pushed by some case task.
Emitted(j) == \E i \in Cases : OfCandidate(task_failures[i], j) # << >>

\* The task of case i is at the load of a flag that is set.
ObservesTrue(i) ==
    /\ AtLoopHead(i)
    /\ config.stop_on_first_fail
    /\ failed_candidates[candidate_idx[i]]

\* C34: with stop_on_first_fail every flag starts false and, once true,
\* never becomes false again; a flag is true only if a failure of that
\* candidate has been pushed by a task; and a task that loads a flag that is
\* true does not run that candidate on its case: it goes on to the next one.
C34_FlagsMonotoneAndObeyed ==
    /\ []((\A i \in Cases : pc[i] = "pending") =>
              \A j \in Candidates : ~failed_candidates[j])
    /\ [](\A j \in Candidates :
              failed_candidates[j] => config.stop_on_first_fail /\ Emitted(j))
    /\ [][/\ \A j \in Candidates : failed_candidates[j] => failed_candidates'[j]
          /\ \A i \in Cases :
                (/\ ObservesTrue(i)
                 /\ << pc'[i], candidate_idx'[i] >> # << pc[i], candidate_idx[i] >>) =>
                    /\ runs'[i] = runs[i]
                    /\ task_failures'[i] = task_failures[i]
                    /\ candidate_idx'[i] = candidate_idx[i] + 1
                    /\ pc'[i] \in {"loop", "done"}]_vars

\* C34 witness: two workers; the task of a case loaded the flag of the first
\* candidate, set by the other task, skipped the candidate although it fails
\* on this case too, and is in its run of the second.
C34_Witness ==
    /\ phase = "pool"
    /\ config.stop_on_first_fail
    /\ config.workers = 2
    /\ failed_candidates[0]
    /\ \E i \in Cases :
          /\ pc[i] = "run"
          /\ candidate_idx[i] = 1
          /\ runs[i] = << None >>
          /\ ReasonOf(i, 0) # "pass"
          /\ \E h \in Cases : h # i /\ OfCandidate(task_failures[h], 0) # << >>

\* The cases on which candidate j was run to a non-pass outcome.
FailedRuns(j) == { i \in Cases : WasRun(i, j) /\ ReasonOf(i, j) # "pass" }

\* C35: with stop_on_first_fail and W workers, at most W failures of one
\* candidate are pushed before aggregation: the candidate is run to a
\* non-pass outcome on at most W cases, however many cases there are.
C35_AtMostWPerCandidate ==
    config.stop_on_first_fail =>
        \A j \in Candidates :
            /\ Cardinality(FailedRuns(j)) <= config.workers
            /\ Stores(j) = Cardinality(FailedRuns(j))
            /\ Reported => Len(OfCandidate(collected, j)) <= config.workers

\* C35 witness: two workers and three cases on all of which the candidate
\* fails: it was run on two of them and skipped on the third.
C35_Witness ==
    /\ Reported
    /\ config.stop_on_first_fail
    /\ config.workers = 2
    /\ config.cases = 3
    /\ \A i \in Cases : OriginSucceeds(i) /\ ReasonOf(i, 0) # "pass"
    /\ Cardinality(FailedRuns(0)) = 2
    /\ Len(OfCandidate(collected, 0)) = 2
    /\ \E i \in Cases : ~WasRun(i, 0)

\* C35 witness: one worker, three cases: the candidate was run once.
C35_WitnessOneWorker ==
    /\ Reported
    /\ config.stop_on_first_fail
    /\ config.workers = 1
    /\ config.cases = 3
    /\ \A i \in Cases : OriginSucceeds(i) /\ ReasonOf(i, 0) # "pass"
    /\ FailedRuns(0) = {0}

\* run_command has returned after a successful spawn.
ReturnedAfterSpawn == rpc = "returned" /\ child # "none"

\* C36: on every return path of run_command after a successful spawn, Ok and
\* Err alike (stdin write failure, wait failure, drain thread failure,
\* timeout), the child has been waited for before the function returns: no
\* running child and no zombie is left behind.
C36_ChildReapedOnReturn ==
    ReturnedAfterSpawn => child = "reaped"

\* C36, the part that holds: every Ok return, the timeout's included, leaves
\* the child reaped; a return that leaves a child that is not reaped is the
\* `?` of the stdin write, of wait_timeout or of wait.
C36_ReapedOnOk ==
    ReturnedAfterSpawn =>
        /\ r_result[1].ok => child = "reaped"
        /\ child # "reaped" =>
              /\ ~r_result[1].ok
              /\ \/ stdin_left # << >> /\ drain.stdout.state = "none"
                 \/ env.fault \in {"wait_timeout", "wait"}

\* C36: the child exited without reading its input, the write failed with
\* EPIPE and run_command returned the error: the child is a zombie.
C36_ZombieAfterWriteFailure ==
    /\ ReturnedAfterSpawn
    /\ ~r_result[1].ok
    /\ env.fault = "none"
    /\ stdin_left # << >>
    /\ child = "exited"

\* C36: wait_timeout failed and run_command returned the error while the
\* child runs on.
C36_RunningAfterWaitFailure ==
    /\ ReturnedAfterSpawn
    /\ ~r_result[1].ok
    /\ env.fault = "wait_timeout"
    /\ child = "running"

\* C36: the timeout expired, the child was killed and reaped, Ok returned.
C36_ReapedAfterTimeout ==
    /\ ReturnedAfterSpawn
    /\ r_result[1].ok
    /\ r_result[1].timed_out
    /\ child_status = "killed"
    /\ child = "reaped"

\* The while loop of the partition phase in the call of gen_call: the list
\* and the cursor it ends with (no step when the function returns at once).
PartitionRun ==
    IF PartitionCount = 0 \/ gen_call.specs = << >>
    THEN [out |-> EdgeTuples, cursor |-> 0]
    ELSE PartitionLoop(EdgeTuples,
                       [n \in 1..Len(gen_call.specs) |->
                           partition_points(gen_call.specs[n])],
                       PartitionCount, 0)

\* Every field of the call has lo = hi.
AllFieldsFixed ==
    \A n \in 1..Len(gen_call.specs) : gen_call.specs[n].min = gen_call.specs[n].max

\* C37: generate_inputs terminates for every valid configuration: the call
\* returns its N cases; the edge phase never exceeds its budget; and the
\* partition loop makes at most 4 * P + 1 cursor steps, exactly that many
\* when every cursor value yields a tuple that is already present (all
\* fields with lo = hi and a budget above one).
C37_GenerateTerminates ==
    \A k \in 1..Len(gen_rets) :
        (ValidPbt /\ gen_call.cases > 0) =>
            /\ gen_rets[k].ok
            /\ Len(gen_rets[k].corpus) = gen_call.cases
            /\ gen_call.pbt.enabled =>
                  /\ Len(EdgeTuples) <= EdgeCount
                  /\ PartitionRun.cursor <= 4 * PartitionCount + 1
                  /\ (AllFieldsFixed /\ PartitionCount > 1) =>
                        /\ PartitionRun.cursor = 4 * PartitionCount + 1
                        /\ Len(PartitionRun.out) = 1

\* C37 witness: one field with lo = hi, four cases, P = 2: the loop went
\* through its nine cursor values without a second tuple, and the call
\* returned four cases.
C37_Witness ==
    /\ Len(gen_rets) = 1
    /\ PbtCall
    /\ gen_call.specs = << [min |-> 0, max |-> 0] >>
    /\ gen_call.cases = 4
    /\ PartitionCount = 2
    /\ PartitionRun.cursor = 9
    /\ PartitionRun.out = << << 0 >> >>
    /\ Len(gen_rets[1].corpus) = 4

\* C37 witness: the loop ended because the budget was met, before the limit.
C37_WitnessBudgetMet ==
    /\ Len(gen_rets) = 1
    /\ PbtCall
    /\ PartitionCount = 2
    /\ Len(EdgeTuples) = 0
    /\ PartitionRun.cursor = 2
    /\ Len(PartitionRun.out) = 2

\* The order of run_command's steps: the positions that can follow each one.
StepsAfter(at) ==
    CASE at = "spawn" -> {"write_stdin", "returned"}
      [] at = "write_stdin" -> {"wait_timeout", "returned"}
      [] at = "wait_timeout" -> {"kill", "join_stdout", "returned"}
      [] at = "kill" -> {"wait"}
      [] at = "wait" -> {"join_stdout", "returned"}
      [] at = "join_stdout" -> {"join_stderr"}
      [] at = "join_stderr" -> {"returned"}
      [] OTHER -> {}

DrainsStarted == drain.stdout.state # "none" /\ drain.stderr.state # "none"
DrainsNotStarted == drain.stdout.state = "none" /\ drain.stderr.state = "none"

\* s is what is left of t after some bytes were taken from its front.
IsSuffix(s, t) ==
    Len(s) <= Len(t) /\ s = SubSeq(t, Len(t) - Len(s) + 1, Len(t))

\* C38: run_command performs its steps in this order in every run: spawn,
\* write the whole input to the child's stdin and close it, only then start
\* the two drain threads, then the wait of timeout_ms, on expiry kill and
\* then reap, and last the joins of the two threads.  So the input is
\* written once, front to back, and the timeout is noticed nowhere but in
\* the wait: neither the write nor the joins are covered by it.
C38_StepsInOrder ==
    /\ [](rpc \in {"spawn", "write_stdin"} =>
              DrainsNotStarted /\ ~timed_out /\ status = "none")
    /\ [](rpc = "write_stdin" => stdin_open /\ IsSuffix(stdin_left, env.input))
    /\ [](rpc \in {"wait_timeout", "kill", "wait", "join_stdout", "join_stderr"} =>
              stdin_left = << >> /\ ~stdin_open /\ DrainsStarted)
    /\ [](rpc \in {"kill", "wait"} => timed_out /\ status = "none")
    /\ [](rpc \in {"join_stdout", "join_stderr"} => child = "reaped")
    /\ []((rpc = "returned" /\ r_result[1].ok) =>
              /\ stdin_left = << >>
              /\ child = "reaped"
              /\ drain.stdout.state = "done"
              /\ drain.stderr.state = "done")
    /\ [][/\ rpc' # rpc => rpc' \in StepsAfter(rpc)
          /\ stdin_left' # stdin_left =>
                \/ rpc = "spawn" /\ stdin_left' = env.input
                \/ rpc = "write_stdin" /\ stdin_left' = Tail(stdin_left)
          /\ timed_out' # timed_out => rpc = "wait_timeout" /\ rpc' = "kill"
          /\ (DrainsNotStarted /\ DrainsStarted') =>
                rpc = "write_stdin" /\ rpc' = "wait_timeout"]_vars

\* C38 witness: a run that went through every step: a non-empty input was
\* written, the child's output drained, the timeout expired, the child was
\* killed and reaped, both threads joined, Ok returned.
C38_Witness ==
    /\ rpc = "returned"
    /\ r_result[1].ok
    /\ r_result[1].timed_out
    /\ env.input # << >>
    /\ stdin_left = << >>
    /\ child = "reaped"
    /\ child_status = "killed"
    /\ drain.stdout.buf # << >>
    /\ drain.stderr.buf # << >>

\* C38 witness: the write is not covered by the timeout: the child neither
\* reads nor exits, the pipe is full, and run_command is still in write_all
\* with input left, no drain thread started, timed_out unset.
C38_WriteOutsideTimeout ==
    /\ rpc = "write_stdin"
    /\ ~env.exits
    /\ ~env.reads_stdin
    /\ Len(stdin_pipe) = PipeCapacity
    /\ stdin_left # << >>
    /\ DrainsNotStarted
    /\ ~timed_out

====
